---- MODULE Spec2Model ----
(***************************************************************************)
(* Compliance engine of efilo: notices, deadlines, the trigger adapter and *)
(* the hourly severity pass, as implemented in                            *)
(*   backend/app/services/compliance/{notices,deadlines,integrations,     *)
(*   calculator,severity,holidays}.py, backend/app/routers/compliance.py  *)
(*   and backend/app/tasks/compliance_crons.py.                           *)
(*                                                                         *)
(* One project is modelled.  A datetime is a number of seconds since       *)
(* 00:00:00 of day 0, which stands for Thursday 2025-07-03; the clock      *)
(* visits 00:00:00 and 23:59:59 of every day.  Every HTTP handler is one   *)
(* action: the service call together with the commit of the endpoint, or   *)
(* the rollback of get_db when the handler raises.                         *)
(***************************************************************************)
EXTENDS Integers, Sequences, FiniteSets, TLC

(***************************************************************************)
(* Bounds of the model.                                                    *)
(***************************************************************************)
MaxTicks == 2
MaxNotices == 1
MaxDeadlines == 1
MaxTriggerDeadlines == 3
MaxRaceDeadlines == 4
MaxInflight == 2
NumAlertUsers == 1
MaxDate == 9
MaxDays == 3
MaxHolidays == 2
MaxScoreNotices == 2
MaxScoredNotices == 8
MaxStreakNotices == 3
NumProjects == 3
NumLimiterKeys == 2
MaxLimiterTime == 4
MaxLimiterRequests == 4
\* The max_requests and the window_seconds of the limiter under test.
LimiterMaxRequests == 2
LimiterWindowSeconds == 3
MaxClauseRows == 6

(***************************************************************************)
(* Program constants.                                                      *)
(***************************************************************************)
SecondsPerDay == 86400
EndOfDaySeconds == 86399
CRITICAL_THRESHOLD_DAYS == 3
WARNING_THRESHOLD_DAYS == 7
INFO_THRESHOLD_DAYS == 14
EpochWeekday == 3
DEFAULT_CLAIMS_VALUE == 50000

NULL == -1

VARIABLES now, notices, nextNoticeId, deadlines, auditTx, alertsTx, inflight,
          emailTx, response, scores, scoreHistory, call, projectHolidays, job,
          limiter, contractClauses, nextClauseId

vars == <<now, notices, nextNoticeId, deadlines, auditTx, alertsTx, inflight,
          emailTx, response, scores, scoreHistory, call,
          projectHolidays, job, limiter, contractClauses, nextClauseId>>

(***************************************************************************)
(* Enumerations (app.models.enums, as used by the services).               *)
(***************************************************************************)
NoticeStatuses == {"DRAFT", "PENDING_REVIEW", "SENT", "ACKNOWLEDGED"}
DeadlineStatuses ==
    {"ACTIVE", "NOTICE_DRAFTED", "NOTICE_SENT", "COMPLETED", "WAIVED", "EXPIRED"}
Severities == {"LOW", "INFO", "WARNING", "CRITICAL", "EXPIRED"}
\* The editable statuses with SENT among them.
EditableStatuses_with_sent == {"DRAFT", "PENDING_REVIEW", "SENT"}

EditableStatuses == {"DRAFT", "PENDING_REVIEW"}
ActiveStatuses == {"ACTIVE", "NOTICE_DRAFTED"}
TerminalStatuses == {"EXPIRED", "WAIVED"}
RFI_CO_CLAUSE_KINDS == {"CLAIMS_PROCEDURE", "CHANGE_ORDER_PROCESS"}
CHANGE_EVENT_CLAUSE_KINDS ==
    {"CHANGE_ORDER_PROCESS", "CLAIMS_PROCEDURE", "NOTICE_REQUIREMENTS"}

(***************************************************************************)
(* The contract clauses of the project (rows of ContractClause).           *)
(*   1: claims procedure, 1 calendar day                                   *)
(*   2: change-order process, 2 business days                              *)
(*   3: notice requirements without deadlineDays                           *)
(*   4: payment terms, 24 hours                                            *)
(*   5: claims procedure, 3 days but no deadlineType                       *)
(***************************************************************************)
ContractClause ==
    [c \in 1..5 |->
        CASE c = 1 -> [kind |-> "CLAIMS_PROCEDURE", deadline_days |-> 1,
                       deadline_type |-> "CALENDAR_DAYS"]
          [] c = 2 -> [kind |-> "CHANGE_ORDER_PROCESS", deadline_days |-> 2,
                       deadline_type |-> "BUSINESS_DAYS"]
          [] c = 3 -> [kind |-> "NOTICE_REQUIREMENTS", deadline_days |-> NULL,
                       deadline_type |-> "CALENDAR_DAYS"]
          [] c = 4 -> [kind |-> "PAYMENT_TERMS", deadline_days |-> 24,
                       deadline_type |-> "HOURS"]
          [] c = 5 -> [kind |-> "CLAIMS_PROCEDURE", deadline_days |-> 3,
                       deadline_type |-> "None"]]
ClauseIds == DOMAIN ContractClause
\* An id that no clause of the project has.
UnknownClause == Cardinality(ClauseIds) + 1

(***************************************************************************)
(* Calendar service (holidays.py).                                         *)
(***************************************************************************)
FEDERAL_HOLIDAYS == {1}

DateOf(t) == t \div SecondsPerDay

\* Number of clock steps from 0 to the instant t.
TicksOf(t) == 2 * DateOf(t) + (IF t % SecondsPerDay = 0 THEN 0 ELSE 1)

EndOfDay(d) == d * SecondsPerDay + EndOfDaySeconds

\* is_business_day without the holiday test.
is_business_day_no_holidays(d, holidays) == ((d + EpochWeekday) % 7) < 5

is_business_day(d, holidays) ==
    ((d + EpochWeekday) % 7) < 5 /\ d \notin holidays

RECURSIVE add_business_days(_, _, _)
add_business_days(start, days, holidays) ==
    IF days > 0
    THEN IF is_business_day(start + 1, holidays)
         THEN add_business_days(start + 1, days - 1, holidays)
         ELSE add_business_days(start + 1, days, holidays)
    ELSE start

add_calendar_days(start, days) == start + days

RECURSIVE count_business_days_between(_, _, _)
count_business_days_between(start, end, holidays) ==
    IF start < end
    THEN (IF is_business_day(start + 1, holidays) THEN 1 ELSE 0)
         + count_business_days_between(start + 1, end, holidays)
    ELSE 0

add_hours(start, hours) == start + hours * 3600

(***************************************************************************)
(* Severity classifier (severity.py).                                      *)
(***************************************************************************)
\* classify_severity with a deadline equal to now not yet expired.
classify_severity_strict(deadline, nowT, status) ==
    IF status \in {"COMPLETED", "WAIVED", "NOTICE_SENT"} THEN "LOW"
    ELSE IF deadline < nowT THEN "EXPIRED"
    ELSE IF deadline - nowT <= CRITICAL_THRESHOLD_DAYS * SecondsPerDay THEN "CRITICAL"
    ELSE IF deadline - nowT <= WARNING_THRESHOLD_DAYS * SecondsPerDay THEN "WARNING"
    ELSE IF deadline - nowT <= INFO_THRESHOLD_DAYS * SecondsPerDay THEN "INFO"
    ELSE "LOW"

classify_severity(deadline, nowT, status) ==
    IF status \in {"COMPLETED", "WAIVED", "NOTICE_SENT"} THEN "LOW"
    ELSE IF deadline <= nowT THEN "EXPIRED"
    ELSE IF deadline - nowT <= CRITICAL_THRESHOLD_DAYS * SecondsPerDay THEN "CRITICAL"
    ELSE IF deadline - nowT <= WARNING_THRESHOLD_DAYS * SecondsPerDay THEN "WARNING"
    ELSE IF deadline - nowT <= INFO_THRESHOLD_DAYS * SecondsPerDay THEN "INFO"
    ELSE "LOW"

(***************************************************************************)
(* Deadline calculation (calculator.py).                                   *)
(***************************************************************************)
\* holidays.get_all_holidays: the federal holidays and the project's holidays
\* from start_date on.
get_all_holidays(start_date) ==
    FEDERAL_HOLIDAYS \cup {h \in projectHolidays : h >= start_date}

\* calculate_deadline with the HOURS result moved to the end of its day.
calculate_deadline_end_of_day(trigger_date, deadline_days, deadline_type, nowT) ==
    LET calculated ==
            IF deadline_type = "BUSINESS_DAYS"
            THEN EndOfDay(add_business_days(DateOf(trigger_date), deadline_days,
                                            get_all_holidays(DateOf(trigger_date))))
            ELSE IF deadline_type = "HOURS"
            THEN EndOfDay(DateOf(add_hours(trigger_date, deadline_days)))
            ELSE EndOfDay(add_calendar_days(DateOf(trigger_date), deadline_days))
    IN [calculatedDeadline |-> calculated,
        severity |-> classify_severity(calculated, nowT, "NONE")]

calculate_deadline(trigger_date, deadline_days, deadline_type, nowT) ==
    LET calculated ==
            IF deadline_type = "BUSINESS_DAYS"
            THEN EndOfDay(add_business_days(DateOf(trigger_date), deadline_days,
                                            get_all_holidays(DateOf(trigger_date))))
            ELSE IF deadline_type = "HOURS"
            THEN add_hours(trigger_date, deadline_days)
            ELSE EndOfDay(add_calendar_days(DateOf(trigger_date), deadline_days))
    IN [calculatedDeadline |-> calculated,
        severity |-> classify_severity(calculated, nowT, "NONE")]

\* The response of the last request: the status code and, for an error, the
\* detail of the HTTPException.  Jobs of the scheduler leave NoResponse.
Ok == [status_code |-> 200, detail |-> ""]
NoResponse == [status_code |-> 0, detail |-> ""]
InternalServerError == "Internal Server Error"
\* The message of the ValueError the services raise on a wrong status.
StatusError(prefix, status) == prefix \o status \o " status"

Audit(eventType, entityType, entityId) ==
    [eventType |-> eventType, entityType |-> entityType, entityId |-> entityId]

AuditDetails(eventType, entityType, entityId, details) ==
    [eventType |-> eventType, entityType |-> entityType, entityId |-> entityId,
     details |-> details]

\* An email handed to send_rfi_email, and whether the SMTP transport took it.
Email(to, sent) == [to |-> to, sent |-> sent]

\* The request handlers and worker tasks that can run a trigger concurrently,
\* each in a database transaction of its own.
Workers == 1..MaxInflight
IdleTransaction == [open |-> FALSE, rows |-> <<>>]
\* No call of a pure function of the calendar or of the classifier is pending.
NoCall == [fn |-> "none"]
\* RateLimiter.__init__ with an empty store, at time 0 of the process; allowed
\* keeps, for each key, the times at which check returned True.
NewLimiter(is_development) ==
    [is_development |-> is_development, time |-> 0,
     store |-> <<>>, allowed |-> <<>>]
\* No job of the scheduler has run yet.
NoJob == [name |-> "none", state |-> "idle", projects |-> <<>>, pos |-> 1,
          done |-> {}, committed |-> {}]

(***************************************************************************)
(* Initial state: an empty project at 00:00:00 of day 0.                   *)
(***************************************************************************)
Init ==
    /\ now = 0
    /\ notices = <<>>
    /\ nextNoticeId = 1
    /\ deadlines = <<>>
    /\ auditTx = <<>>
    /\ alertsTx = 0
    /\ inflight = [w \in Workers |-> IdleTransaction]
    /\ emailTx = <<>>
    /\ response = NoResponse
    /\ scores = <<>>
    /\ scoreHistory = <<>>
    /\ call = NoCall
    /\ projectHolidays = {}
    /\ job = NoJob
    /\ limiter = NewLimiter(FALSE)
    /\ contractClauses = <<>>
    /\ nextClauseId = 1

(***************************************************************************)
(* The clock moves to the next of 00:00:00 and 23:59:59.                   *)
(***************************************************************************)
Tick ==
    /\ LET next == IF now % SecondsPerDay = 0 THEN now + EndOfDaySeconds ELSE now + 1
       IN /\ TicksOf(next) <= MaxTicks
          /\ now' = next
    /\ auditTx' = <<>>
    /\ alertsTx' = 0
    /\ emailTx' = <<>>
    /\ response' = NoResponse
    /\ UNCHANGED <<notices, nextNoticeId, deadlines, inflight, scores, scoreHistory, call,
                   projectHolidays, job, limiter,
                   contractClauses, nextClauseId>>

(***************************************************************************)
(* Inputs of the HTTP surface.                                             *)
(***************************************************************************)
NoticeIds == 1..MaxNotices
\* The title and the recipient name of the bodies of POST /notices, and the
\* content the endpoint drafts for them.
NoticeText ==
    [title |-> "Notice of Delay", content |-> "draft", name |-> "General Contractor"]
DeadlineIds == 1..MaxDeadlines
\* Bodies of POST /notices: clauseId, deadlineDate and recipientEmail (after the
\* fallback to the project's GC contact).
NoticeRequests ==
    {[clause |-> 1, due |-> EndOfDay(0), email |-> "gc@example.com"] @@ NoticeText,
     [clause |-> NULL, due |-> NULL, email |-> "gc@example.com"] @@ NoticeText,
     [clause |-> 1, due |-> EndOfDay(0), email |-> "None"] @@ NoticeText}
EventIds == {1}
\* Bodies of POST /deadlines: a clause, a trigger and triggeredAt.  They cover a
\* trigger at the time of the request with the tuple the RFI adapter uses, a
\* trigger in the past, a trigger ahead of the clock next to a severity
\* threshold, and clauses for which creation fails.
DeadlineRequests(nowT) ==
    {[clause |-> 1, type |-> "RFI", id |-> 1, at |-> nowT],
     [clause |-> 4, type |-> "MANUAL", id |-> NULL, at |-> 0],
     [clause |-> 1, type |-> "MANUAL", id |-> NULL, at |-> 2 * SecondsPerDay],
     [clause |-> 3, type |-> "MANUAL", id |-> NULL, at |-> nowT],
     [clause |-> 5, type |-> "MANUAL", id |-> NULL, at |-> nowT],
     [clause |-> UnknownClause, type |-> "MANUAL", id |-> NULL, at |-> nowT]}
WaiverReasons == {"owner directive"}
NoEmail == "None"
EmailInputs == {NoEmail, "gc@example.com"}
StatusInputs == NoticeStatuses \cup {NoEmail, "ARCHIVED"}

\* Bodies of PATCH /notices/{nid}; a field left out is None.
UpdateNoticeRequest(titles, contents, names, emails, statuses) ==
    [title : titles, content : contents, recipientName : names,
     recipientEmail : emails, status : statuses]
\* Bodies that leave the title, the content and the recipient name out.
UpdateNoticeRequests(emails, statuses) ==
    UpdateNoticeRequest({NoEmail}, {NoEmail}, {NoEmail}, emails, statuses)

Truthy(s) == s \notin {NoEmail, ""}

DeadlineExists(d) == d \in DOMAIN deadlines
NoticeExists(n) == n \in DOMAIN notices

\* A request that fails (4xx, or an exception rolled back by get_db) changes
\* nothing in the database.
Rejected(status_code, detail) ==
    /\ auditTx' = <<>>
    /\ alertsTx' = 0
    /\ emailTx' = <<>>
    /\ response' = [status_code |-> status_code, detail |-> detail]
    /\ UNCHANGED <<now, notices, nextNoticeId, deadlines, inflight, scores, scoreHistory, call,
                   projectHolidays, job, limiter,
                   contractClauses, nextClauseId>>

(***************************************************************************)
(* deadlines.create_deadline: the rows it adds, none when the clause is    *)
(* missing or has no deadline parameters (the function returns None).      *)
(***************************************************************************)
\* create_deadline without the check of the clause's deadline parameters.
create_deadline_unchecked(clause_id, trigger_event_type, trigger_event_id, triggered_at, nowT) ==
    IF clause_id \notin ClauseIds THEN <<>>
    ELSE LET clause == ContractClause[clause_id]
             calc == calculate_deadline(triggered_at, clause.deadline_days,
                                        "CALENDAR_DAYS", nowT)
         IN <<[clauseId |-> clause_id,
               triggerEventType |-> trigger_event_type,
               triggerEventId |-> trigger_event_id,
               triggeredAt |-> triggered_at,
               calculatedDeadline |-> calc.calculatedDeadline,
               status |-> "ACTIVE",
               severity |-> calc.severity,
               noticeId |-> NULL,
               noticeCreatedAt |-> NULL,
               waivedAt |-> NULL,
               waiverReason |-> ""]>>

create_deadline(clause_id, trigger_event_type, trigger_event_id, triggered_at, nowT) ==
    IF clause_id \notin ClauseIds THEN <<>>
    ELSE LET clause == ContractClause[clause_id] IN
         IF clause.deadline_days \in {NULL, 0} \/ clause.deadline_type = "None"
         THEN <<>>
         ELSE LET calc == calculate_deadline(triggered_at, clause.deadline_days,
                                             clause.deadline_type, nowT)
              IN <<[clauseId |-> clause_id,
                    triggerEventType |-> trigger_event_type,
                    triggerEventId |-> trigger_event_id,
                    triggeredAt |-> triggered_at,
                    calculatedDeadline |-> calc.calculatedDeadline,
                    status |-> "ACTIVE",
                    severity |-> calc.severity,
                    noticeId |-> NULL,
                    noticeCreatedAt |-> NULL,
                    waivedAt |-> NULL,
                    waiverReason |-> ""]>>

\* POST /projects/{pid}/compliance/deadlines
create_deadline_endpoint(body, cap) ==
    LET rows == create_deadline(body.clause, body.type, body.id, body.at, now)
    IN IF rows = <<>>
       THEN Rejected(400, "Failed to create deadline - check clause parameters")
       ELSE /\ Len(deadlines) < cap
            /\ deadlines' = deadlines \o rows
            /\ auditTx' = <<Audit("DEADLINE_CREATED", "ComplianceDeadline",
                                  Len(deadlines) + 1)>>
            /\ alertsTx' = 0
            /\ emailTx' = <<>>
            /\ response' = Ok
            /\ UNCHANGED <<now, notices, nextNoticeId, inflight, scores, scoreHistory, call,
                   projectHolidays, job, limiter,
                   contractClauses, nextClauseId>>

\* POST /projects/{pid}/compliance/deadlines/{did}/waive
waive_deadline(deadline_id, reason) ==
    IF ~DeadlineExists(deadline_id)
    THEN Rejected(404, "Deadline not found")
    ELSE /\ deadlines' = [deadlines EXCEPT ![deadline_id].status = "WAIVED",
                                           ![deadline_id].waivedAt = now,
                                           ![deadline_id].waiverReason = reason,
                                           ![deadline_id].severity = "LOW"]
         /\ auditTx' = <<Audit("DEADLINE_WAIVED", "ComplianceDeadline", deadline_id)>>
         /\ alertsTx' = 0
         /\ emailTx' = <<>>
         /\ response' = Ok
         /\ UNCHANGED <<now, notices, nextNoticeId, inflight, scores, scoreHistory, call,
                   projectHolidays, job, limiter,
                   contractClauses, nextClauseId>>

(***************************************************************************)
(* Notice engine (notices.py) behind its endpoints.                        *)
(***************************************************************************)
\* POST /projects/{pid}/compliance/notices
create_notice(body, deadline_id, cap) ==
    /\ nextNoticeId <= cap
    /\ LET id == nextNoticeId
           notice == [status |-> "DRAFT",
                      clauseId |-> body.clause,
                      dueDate |-> body.due,
                      title |-> body.title,
                      content |-> body.content,
                      recipientName |-> body.name,
                      recipientEmail |-> body.email,
                      sentAt |-> NULL,
                      deliveredAt |-> NULL,
                      acknowledgedAt |-> NULL,
                      onTimeStatus |-> "null"]
       IN /\ notices' = (id :> notice) @@ notices
          /\ nextNoticeId' = id + 1
          /\ deadlines' =
                IF deadline_id # NULL /\ DeadlineExists(deadline_id)
                THEN [deadlines EXCEPT ![deadline_id].status = "NOTICE_DRAFTED",
                                       ![deadline_id].noticeId = id,
                                       ![deadline_id].noticeCreatedAt = now]
                ELSE deadlines
          /\ auditTx' = <<Audit("NOTICE_CREATED", "ComplianceNotice", id)>>
    /\ alertsTx' = 0
    /\ emailTx' = <<>>
    /\ response' = Ok
    /\ UNCHANGED <<now, inflight, scores, scoreHistory, call,
                   projectHolidays, job, limiter,
                   contractClauses, nextClauseId>>

\* PATCH /projects/{pid}/compliance/notices/{nid}
update_notice_endpoint(notice_id, body) ==
    IF ~NoticeExists(notice_id) THEN Rejected(404, "Notice not found")
    ELSE IF notices[notice_id].status \notin EditableStatuses
    THEN Rejected(400, StatusError("Cannot edit notice in ", notices[notice_id].status))
    ELSE IF Truthy(body.status) /\ body.status \notin NoticeStatuses
    THEN Rejected(400, "Invalid status: " \o body.status)
    ELSE LET status == body.status
             notice == notices[notice_id]
             edited == [notice EXCEPT
                 !.title = IF body.title # NoEmail THEN body.title ELSE @,
                 !.content = IF body.content # NoEmail THEN body.content ELSE @,
                 !.recipientName =
                     IF body.recipientName # NoEmail THEN body.recipientName ELSE @,
                 !.recipientEmail =
                     IF body.recipientEmail # NoEmail THEN body.recipientEmail ELSE @]
             acked == IF status = "ACKNOWLEDGED" /\ edited.acknowledgedAt = NULL
                      THEN [edited EXCEPT !.acknowledgedAt = now,
                                          !.onTimeStatus = "true"]
                      ELSE edited
             final == IF Truthy(status) THEN [acked EXCEPT !.status = status]
                      ELSE edited
         IN /\ notices' = [notices EXCEPT ![notice_id] = final]
            /\ auditTx' = <<>>
            /\ alertsTx' = 0
            /\ emailTx' = <<>>
            /\ response' = Ok
            /\ UNCHANGED <<now, nextNoticeId, deadlines, inflight, scores, scoreHistory, call,
                   projectHolidays, job, limiter,
                   contractClauses, nextClauseId>>

\* on_time_status with the comparison made strict.
on_time_status_strict(due_date, sent_at) == due_date = NULL \/ sent_at < due_date

\* notices.py line 274
on_time_status(due_date, sent_at) == due_date = NULL \/ sent_at <= due_date

\* delivered_at set whatever the transport reported.
delivered_at_always(sent, nowT) == nowT

\* notice.delivered_at = now if sent else None
delivered_at(sent, nowT) == IF sent THEN nowT ELSE NULL

LinkedDeadlines(notice_id) ==
    {d \in DOMAIN deadlines : deadlines[d].noticeId = notice_id}

\* POST /projects/{pid}/compliance/notices/{nid}/send
send_notice(notice_id, sent) ==
    IF ~NoticeExists(notice_id) THEN Rejected(404, "Notice not found")
    ELSE IF notices[notice_id].status \notin EditableStatuses
    THEN Rejected(400, StatusError("Cannot send notice in ", notices[notice_id].status))
    ELSE IF ~Truthy(notices[notice_id].recipientEmail)
    THEN Rejected(400, "Notice has no recipient email")
    ELSE IF notices[notice_id].clauseId # NULL
            /\ Cardinality(LinkedDeadlines(notice_id)) > 1
    THEN \* scalar_one_or_none raises after the email has gone out
         /\ auditTx' = <<>>
         /\ alertsTx' = 0
         /\ emailTx' = <<Email(notices[notice_id].recipientEmail, sent)>>
         /\ response' = [status_code |-> 500, detail |-> InternalServerError]
         /\ UNCHANGED <<now, notices, nextNoticeId, deadlines, inflight,
                        scores, scoreHistory, call,
                   projectHolidays, job, limiter,
                   contractClauses, nextClauseId>>
    ELSE LET notice == notices[notice_id] IN
         /\ notices' = [notices EXCEPT ![notice_id] =
                [notice EXCEPT !.status = "SENT",
                               !.sentAt = now,
                               !.deliveredAt = delivered_at(sent, now),
                               !.onTimeStatus =
                                   IF on_time_status(notice.dueDate, now)
                                   THEN "true" ELSE "false"]]
         /\ deadlines' =
                IF notice.clauseId # NULL
                THEN [d \in DOMAIN deadlines |->
                         IF d \in LinkedDeadlines(notice_id)
                         THEN [deadlines[d] EXCEPT !.status = "NOTICE_SENT"]
                         ELSE deadlines[d]]
                ELSE deadlines
         /\ auditTx' = <<AuditDetails("NOTICE_SENT", "ComplianceNotice", notice_id,
                        [recipientEmail |-> notice.recipientEmail,
                         emailSent |-> sent,
                         onTime |-> on_time_status(notice.dueDate, now)])>>
         /\ alertsTx' = 0
         /\ emailTx' = <<Email(notice.recipientEmail, sent)>>
         /\ response' = Ok
         /\ UNCHANGED <<now, nextNoticeId, inflight, scores, scoreHistory, call,
                   projectHolidays, job, limiter,
                   contractClauses, nextClauseId>>

\* The status check of regenerate_notice_draft left out.
regenerate_refused_never(status) == FALSE

\* notices.py line 485: only DRAFT and PENDING_REVIEW notices are regenerated.
regenerate_refused(status) == status \notin EditableStatuses

\* POST /projects/{pid}/compliance/notices/{nid}/regenerate; generated tells
\* whether the call of the language model returned.
regenerate_notice(notice_id, generated) ==
    IF ~NoticeExists(notice_id) THEN Rejected(400, "Notice not found")
    ELSE IF regenerate_refused(notices[notice_id].status)
    THEN Rejected(400, StatusError("Cannot regenerate notice in ",
                                   notices[notice_id].status))
    ELSE IF notices[notice_id].clauseId = NULL
    THEN Rejected(400, "Notice has no linked clause")
    ELSE IF notices[notice_id].clauseId \notin ClauseIds
    THEN Rejected(400, "Linked clause not found")
    ELSE IF Cardinality(LinkedDeadlines(notice_id)) > 1 \/ ~generated
    THEN Rejected(500, InternalServerError)
    ELSE /\ notices' = [notices EXCEPT ![notice_id].content = "generated"]
         /\ auditTx' = <<>>
         /\ alertsTx' = 0
         /\ emailTx' = <<>>
         /\ response' = Ok
         /\ UNCHANGED <<now, nextNoticeId, deadlines, inflight, scores, scoreHistory, call,
                   projectHolidays, job, limiter,
                   contractClauses, nextClauseId>>

\* The deadline unlinked without its status restored.
unlinked_keeps_status(deadline) ==
    [deadline EXCEPT !.noticeId = NULL, !.noticeCreatedAt = NULL]

\* notices.py lines 337-340: the deadline of a deleted draft.
unlinked(deadline) ==
    [deadline EXCEPT !.noticeId = NULL, !.noticeCreatedAt = NULL, !.status = "ACTIVE"]

\* The status check of delete_notice left out.
delete_refused_never(status) == FALSE

\* notices.py line 326: only DRAFT and PENDING_REVIEW notices are deleted.
delete_refused(status) == status \notin EditableStatuses

\* DELETE /projects/{pid}/compliance/notices/{nid}
delete_notice(notice_id) ==
    IF ~NoticeExists(notice_id) THEN Rejected(404, "Notice not found")
    ELSE IF delete_refused(notices[notice_id].status)
    THEN Rejected(400, StatusError("Cannot delete notice in ", notices[notice_id].status))
    ELSE IF Cardinality(LinkedDeadlines(notice_id)) > 1
    THEN Rejected(500, InternalServerError)
    ELSE /\ deadlines' =
                [d \in DOMAIN deadlines |->
                    IF d \in LinkedDeadlines(notice_id)
                    THEN unlinked(deadlines[d])
                    ELSE deadlines[d]]
         /\ notices' = [n \in DOMAIN notices \ {notice_id} |-> notices[n]]
         /\ auditTx' = <<Audit("NOTICE_DELETED", "ComplianceNotice", notice_id)>>
         /\ alertsTx' = 0
         /\ emailTx' = <<>>
         /\ response' = Ok
         /\ UNCHANGED <<now, nextNoticeId, inflight, scores, scoreHistory, call,
                   projectHolidays, job, limiter,
                   contractClauses, nextClauseId>>

\* POST /projects/{pid}/compliance/notices/{nid}/confirm-delivery
confirm_delivery(notice_id) ==
    IF ~NoticeExists(notice_id) THEN Rejected(404, "Notice not found")
    ELSE IF notices[notice_id].status # "SENT"
    THEN Rejected(400, StatusError("Cannot confirm delivery for notice in ",
                                   notices[notice_id].status))
    ELSE /\ notices' = [notices EXCEPT ![notice_id].status = "ACKNOWLEDGED",
                                       ![notice_id].deliveredAt = now]
         /\ auditTx' = <<Audit("DELIVERY_CONFIRMED", "ComplianceNotice", notice_id)>>
         /\ alertsTx' = 0
         /\ emailTx' = <<>>
         /\ response' = Ok
         /\ UNCHANGED <<now, nextNoticeId, deadlines, inflight, scores, scoreHistory, call,
                   projectHolidays, job, limiter,
                   contractClauses, nextClauseId>>

(***************************************************************************)
(* Trigger adapter (integrations.py).  The clauses come back in id order.  *)
(***************************************************************************)
MatchingClauses(kinds) ==
    LET Matches(c) == /\ ContractClause[c].kind \in kinds
                      /\ ContractClause[c].deadline_days # NULL
    IN SelectSeq([c \in 1..Cardinality(ClauseIds) |-> c], Matches)

\* ExistingDeadlines with the status filter inverted (in_ for notin_).
ExistingDeadlines_in(dls, clause_id, trigger_event_type, trigger_event_id) ==
    {d \in DOMAIN dls : /\ dls[d].clauseId = clause_id
                        /\ dls[d].triggerEventId = trigger_event_id
                        /\ dls[d].triggerEventType = trigger_event_type
                        /\ dls[d].status \in TerminalStatuses}

\* The non-terminal deadlines the adapter finds for a clause and a trigger.
ExistingDeadlines(dls, clause_id, trigger_event_type, trigger_event_id) ==
    {d \in DOMAIN dls : /\ dls[d].clauseId = clause_id
                        /\ dls[d].triggerEventId = trigger_event_id
                        /\ dls[d].triggerEventType = trigger_event_type
                        /\ dls[d].status \notin TerminalStatuses}

\* The loop over the matching clauses: the table after the loop, the ids it
\* created, and whether scalar_one_or_none raised on more than one row.
RECURSIVE trigger_loop(_, _, _, _, _, _)
trigger_loop(dls, created, clauses, trigger_event_type, trigger_event_id, nowT) ==
    IF clauses = <<>>
    THEN [deadlines |-> dls, created |-> created, raised |-> FALSE]
    ELSE LET clause_id == Head(clauses)
             existing == ExistingDeadlines(dls, clause_id, trigger_event_type,
                                           trigger_event_id)
         IN IF Cardinality(existing) > 1
            THEN [deadlines |-> dls, created |-> created, raised |-> TRUE]
            ELSE IF existing # {}
            THEN trigger_loop(dls, created, Tail(clauses), trigger_event_type,
                              trigger_event_id, nowT)
            ELSE LET rows == create_deadline(clause_id, trigger_event_type,
                                             trigger_event_id, nowT, nowT)
                 IN trigger_loop(dls \o rows,
                                 IF rows = <<>> THEN created
                                 ELSE Append(created, Len(dls) + 1),
                                 Tail(clauses), trigger_event_type,
                                 trigger_event_id, nowT)

trigger_compliance(kinds, trigger_event_type, trigger_event_id) ==
    LET r == trigger_loop(deadlines, <<>>, MatchingClauses(kinds),
                          trigger_event_type, trigger_event_id, now)
    IN IF r.raised
       THEN Rejected(500, InternalServerError)
       ELSE /\ Len(r.deadlines) <= MaxTriggerDeadlines
            /\ deadlines' = r.deadlines
            /\ auditTx' = [i \in 1..Len(r.created) |->
                             Audit("DEADLINE_CREATED", "ComplianceDeadline",
                                   r.created[i])]
            /\ alertsTx' = 0
            /\ emailTx' = <<>>
            /\ response' = Ok
            /\ UNCHANGED <<now, notices, nextNoticeId, inflight, scores, scoreHistory, call,
                   projectHolidays, job, limiter,
                   contractClauses, nextClauseId>>

trigger_rfi_compliance(rfi_id) ==
    trigger_compliance(RFI_CO_CLAUSE_KINDS, "RFI", rfi_id)

trigger_change_event_compliance(change_event_id) ==
    trigger_compliance(CHANGE_EVENT_CLAUSE_KINDS, "CHANGE_ORDER", change_event_id)

(***************************************************************************)
(* Hourly severity pass (compliance_crons._run_severity_cron) and the      *)
(* service function deadlines.recalculate_severities.                      *)
(***************************************************************************)
cron_severity(calculated_deadline, nowT) ==
    IF calculated_deadline <= nowT THEN "EXPIRED"
    ELSE IF calculated_deadline - nowT <= 3 * SecondsPerDay THEN "CRITICAL"
    ELSE IF calculated_deadline - nowT <= 7 * SecondsPerDay THEN "WARNING"
    ELSE IF calculated_deadline - nowT <= 14 * SecondsPerDay THEN "INFO"
    ELSE "LOW"

\* The status written when the recomputed severity differs from the stored one.
expire_on_change(deadline, new_severity) ==
    IF deadline.severity # new_severity
    THEN [deadline EXCEPT !.severity = new_severity,
                          !.status = IF new_severity = "EXPIRED" THEN "EXPIRED"
                                     ELSE deadline.status]
    ELSE deadline

\* The severities for which the pass notifies the users.
ALERT_SEVERITIES == {"CRITICAL", "WARNING", "EXPIRED"}

\* One pass over the table dls at time nowT: the table it commits and the
\* number of notifications it adds (the "alertsSent" of its result).
severity_cron_pass(dls, nowT) ==
    LET active == {d \in DOMAIN dls : dls[d].status \in ActiveStatuses}
        alerted == {d \in active :
                      cron_severity(dls[d].calculatedDeadline, nowT)
                          \in ALERT_SEVERITIES}
    IN [deadlines |->
            [d \in DOMAIN dls |->
                IF d \in active
                THEN expire_on_change(dls[d],
                        cron_severity(dls[d].calculatedDeadline, nowT))
                ELSE dls[d]],
        alertsSent |-> Cardinality(alerted) * NumAlertUsers]

run_severity_cron ==
    LET pass == severity_cron_pass(deadlines, now)
    IN /\ deadlines' = pass.deadlines
       /\ alertsTx' = pass.alertsSent
       /\ emailTx' = <<>>
       /\ response' = NoResponse
       /\ auditTx' = <<>>
       /\ UNCHANGED <<now, notices, nextNoticeId, inflight, scores, scoreHistory, call,
                   projectHolidays, job, limiter,
                   contractClauses, nextClauseId>>

recalculate_severities ==
    /\ deadlines' =
            [d \in DOMAIN deadlines |->
                IF deadlines[d].status \in ActiveStatuses
                THEN expire_on_change(deadlines[d],
                        classify_severity(deadlines[d].calculatedDeadline, now,
                                          deadlines[d].status))
                ELSE deadlines[d]]
    /\ alertsTx' = 0
    /\ emailTx' = <<>>
    /\ response' = NoResponse
    /\ auditTx' = <<>>
    /\ UNCHANGED <<now, notices, nextNoticeId, inflight, scores, scoreHistory, call,
                   projectHolidays, job, limiter,
                   contractClauses, nextClauseId>>

(***************************************************************************)
(* Compliance score (scoring.py).                                          *)
(***************************************************************************)
SentStatuses == {"SENT", "ACKNOWLEDGED"}

\* The notices calculate_score selects.
SentNotices(nts) == {n \in DOMAIN nts : nts[n].status \in SentStatuses}

\* The orders in which the database can return the rows of a set (the queries
\* have no ORDER BY).
RowOrders(S) ==
    {rows \in [1..Cardinality(S) -> S] :
        \A i, j \in 1..Cardinality(S) : i # j => rows[i] # rows[j]}

\* score_percentage with int() for round(): the quotient truncated.
score_percentage_truncated(on_time_count, total_count) ==
    IF total_count > 0 THEN (on_time_count * 100) \div total_count ELSE 100

\* round(on_time_count / total_count * 100) of Python 3: to the nearest
\* integer, a tie going to the even one.
score_percentage(on_time_count, total_count) ==
    IF total_count > 0
    THEN LET q == (on_time_count * 100) \div total_count
             r == (on_time_count * 100) % total_count
         IN IF 2 * r < total_count THEN q
            ELSE IF 2 * r > total_count THEN q + 1
            ELSE IF q % 2 = 0 THEN q ELSE q + 1
    ELSE 100

\* sorted(..., key=sent_at, reverse=True): a stable sort, so notices with the
\* same sent_at keep the order of rows.
RECURSIVE sorted_by_sent_at(_, _)
sorted_by_sent_at(rows, nts) ==
    IF rows = <<>> THEN <<>>
    ELSE LET front == sorted_by_sent_at(SubSeq(rows, 1, Len(rows) - 1), nts)
             last == rows[Len(rows)]
             ahead == {i \in 1..Len(front) :
                          nts[front[i]].sentAt >= nts[last].sentAt}
         IN SubSeq(front, 1, Cardinality(ahead)) \o <<last>>
            \o SubSeq(front, Cardinality(ahead) + 1, Len(front))

\* leading_on_time without the break at the first notice not on time.
leading_on_time_no_break(sorted_notices, nts) ==
    Cardinality({i \in DOMAIN sorted_notices :
                    nts[sorted_notices[i]].onTimeStatus = "true"})

RECURSIVE leading_on_time(_, _)
leading_on_time(sorted_notices, nts) ==
    IF sorted_notices = <<>> THEN 0
    ELSE IF nts[Head(sorted_notices)].onTimeStatus = "true"
    THEN 1 + leading_on_time(Tail(sorted_notices), nts)
    ELSE 0

_calculate_streak(rows, nts) ==
    LET HasSentAt(n) == nts[n].sentAt # NULL
    IN leading_on_time(sorted_by_sent_at(SelectSeq(rows, HasSentAt), nts), nts)

\* max(score_record.best_streak, streak) replaced by min.
max_as_min(a, b) == IF a <= b THEN a ELSE b

max(a, b) == IF a >= b THEN a ELSE b

\* The row of the query of lines 92-98: the one calculated last.
latest_score(scs) ==
    CHOOSE i \in DOMAIN scs :
        \A j \in DOMAIN scs : scs[j].calculatedAt <= scs[i].calculatedAt

\* The ComplianceScore table after calculate_score at time nowT, rows being
\* the order in which the query returned the sent notices.
calculate_score(nts, dls, scs, nowT, rows) ==
    LET total_count == Len(rows)
        on_time_count ==
            Cardinality({i \in DOMAIN rows : nts[rows[i]].onTimeStatus = "true"})
        missed_count ==
            Cardinality({i \in DOMAIN rows : nts[rows[i]].onTimeStatus = "false"})
        active == {d \in DOMAIN dls : dls[d].status \in ActiveStatuses}
        at_risk_count ==
            Cardinality({d \in active : dls[d].severity \in {"CRITICAL", "WARNING"}})
        upcoming_count ==
            Cardinality({d \in active : dls[d].severity \in {"LOW", "INFO"}})
        streak == _calculate_streak(rows, nts)
        computed ==
            [score |-> score_percentage(on_time_count, total_count),
             onTimeCount |-> on_time_count,
             totalCount |-> total_count,
             missedCount |-> missed_count,
             atRiskCount |-> at_risk_count,
             activeCount |-> Cardinality(active),
             upcomingCount |-> upcoming_count,
             protectedClaimsValue |-> on_time_count * DEFAULT_CLAIMS_VALUE,
             atRiskValue |-> at_risk_count * DEFAULT_CLAIMS_VALUE,
             currentStreak |-> streak,
             bestStreak |-> streak,
             streakBrokenAt |-> NULL,
             calculatedAt |-> nowT]
    IN IF scs = <<>>
       THEN <<computed>>
       ELSE LET latest == latest_score(scs)
                old == scs[latest]
            IN [scs EXCEPT ![latest] =
                  [computed EXCEPT
                     !.bestStreak = max(old.bestStreak, streak),
                     !.streakBrokenAt =
                        IF streak < old.currentStreak /\ old.currentStreak > 0
                        THEN nowT ELSE old.streakBrokenAt]]

\* GET /projects/{pid}/compliance/score and POST .../score/recalculate: both
\* run calculate_score and commit.
score_request(rows) ==
    /\ scores' = calculate_score(notices, deadlines, scores, now, rows)
    /\ auditTx' = <<>>
    /\ alertsTx' = 0
    /\ emailTx' = <<>>
    /\ response' = Ok
    /\ UNCHANGED <<now, notices, nextNoticeId, deadlines, inflight, scoreHistory,
                   call, projectHolidays, job, limiter,
                   contractClauses, nextClauseId>>

get_score(rows) == score_request(rows)

recalculate_score_endpoint(rows) == score_request(rows)

(***************************************************************************)
(* Score history: scoring.create_score_snapshot and the daily and weekly   *)
(* jobs of compliance_crons.                                               *)
(***************************************************************************)
Midnight(t) == DateOf(t) * SecondsPerDay

\* The rows of the history with a snapshot date and a period type.
Snapshots(history, snapshot_date, period_type) ==
    {i \in DOMAIN history : /\ history[i].snapshotDate = snapshot_date
                            /\ history[i].periodType = period_type}

\* The number of sent notices with sent_at in the hours before nowT.
sent_in_period(nts, nowT, period_hours) ==
    Cardinality({n \in SentNotices(nts) :
                    /\ nts[n].sentAt # NULL
                    /\ nts[n].sentAt >= nowT - period_hours * 3600})

\* The counts a snapshot stores.
snapshot_values(percentage, on_time_count, total_count, count) ==
    [compliancePercentage |-> percentage,
     onTimeCount |-> on_time_count,
     totalCount |-> total_count,
     noticesSentInPeriod |-> count,
     protectedClaimsValue |-> on_time_count * DEFAULT_CLAIMS_VALUE]

\* The insert of a snapshot; createdAt is the server default now().
insert_snapshot(history, values, period_type, nowT) ==
    Append(history,
           values @@ [snapshotDate |-> Midnight(nowT), periodType |-> period_type,
                      createdAt |-> nowT])

\* upsert_snapshot without the look-up of the existing row.
upsert_snapshot_insert_only(history, values, period_type, nowT) ==
    insert_snapshot(history, values, period_type, nowT)

\* The existing snapshot of the day and period overwritten, or a row added.
upsert_snapshot(history, values, period_type, nowT) ==
    LET existing == Snapshots(history, Midnight(nowT), period_type)
    IN IF existing # {}
       THEN [i \in DOMAIN history |->
                IF i \in existing THEN values @@ history[i] ELSE history[i]]
       ELSE insert_snapshot(history, values, period_type, nowT)

\* scoring.create_score_snapshot, and the commit of its caller.
create_score_snapshot(period_type, rows) ==
    LET scored == calculate_score(notices, deadlines, scores, now, rows)
        score == scored[Len(scored)]
        period_hours == IF period_type = "daily" THEN 24 ELSE 168
    IN /\ scores' = scored
       /\ scoreHistory' =
             upsert_snapshot(scoreHistory,
                 snapshot_values(score.score, score.onTimeCount, score.totalCount,
                                 sent_in_period(notices, now, period_hours)),
                 period_type, now)
       /\ auditTx' = <<>>
       /\ alertsTx' = 0
       /\ emailTx' = <<>>
       /\ response' = NoResponse
       /\ UNCHANGED <<now, notices, nextNoticeId, deadlines, inflight, call,
                      projectHolidays, job, limiter,
                   contractClauses, nextClauseId>>

\* The counts the two jobs compute by themselves.
job_snapshot_values(nts, nowT, period_hours) ==
    LET sent == SentNotices(nts)
        on_time_count == Cardinality({n \in sent : nts[n].onTimeStatus = "true"})
    IN snapshot_values(score_percentage(on_time_count, Cardinality(sent)),
                       on_time_count, Cardinality(sent),
                       sent_in_period(nts, nowT, period_hours))

\* compliance_crons._run_daily_snapshot (daily, 2 AM)
run_daily_snapshot ==
    /\ scoreHistory' = upsert_snapshot(scoreHistory,
                           job_snapshot_values(notices, now, 24), "daily", now)
    /\ auditTx' = <<>>
    /\ alertsTx' = 0
    /\ emailTx' = <<>>
    /\ response' = NoResponse
    /\ UNCHANGED <<now, notices, nextNoticeId, deadlines, inflight, scores, call,
                   projectHolidays, job, limiter,
                   contractClauses, nextClauseId>>

\* compliance_crons._run_weekly_summary (Monday 8 AM): the summary goes to the
\* users by email, and the week gets a snapshot unless the day has one.
run_weekly_summary(sent) ==
    /\ scoreHistory' =
          IF Snapshots(scoreHistory, Midnight(now), "weekly") = {}
          THEN insert_snapshot(scoreHistory, job_snapshot_values(notices, now, 168),
                               "weekly", now)
          ELSE scoreHistory
    /\ auditTx' = <<>>
    /\ alertsTx' = 0
    /\ emailTx' = [u \in 1..NumAlertUsers |-> Email("user@example.com", sent[u])]
    /\ response' = NoResponse
    /\ UNCHANGED <<now, notices, nextNoticeId, deadlines, inflight, scores, call,
                   projectHolidays, job, limiter,
                   contractClauses, nextClauseId>>

(***************************************************************************)
(* Project holidays (routers/compliance.py): a holiday row is known by its *)
(* date, unique in the project.                                            *)
(***************************************************************************)
\* create_holiday followed by a recalculation of the open deadlines.
create_holiday_recalculating(holiday_date) ==
    /\ holiday_date \notin projectHolidays
    /\ projectHolidays' = projectHolidays \cup {holiday_date}
    /\ deadlines' =
          [d \in DOMAIN deadlines |->
              IF deadlines[d].clauseId \in ClauseIds
              THEN [deadlines[d] EXCEPT !.calculatedDeadline =
                      IF ContractClause[deadlines[d].clauseId].deadline_type
                            = "BUSINESS_DAYS"
                      THEN EndOfDay(add_business_days(
                              DateOf(deadlines[d].triggeredAt),
                              ContractClause[deadlines[d].clauseId].deadline_days,
                              FEDERAL_HOLIDAYS \cup projectHolidays'))
                      ELSE @]
              ELSE deadlines[d]]
    /\ auditTx' = <<>>
    /\ alertsTx' = 0
    /\ emailTx' = <<>>
    /\ response' = Ok
    /\ UNCHANGED <<now, notices, nextNoticeId, inflight, scores, scoreHistory, call,
                   job, limiter,
                   contractClauses, nextClauseId>>

\* POST /projects/{pid}/compliance/holidays
create_holiday(holiday_date) ==
    IF holiday_date \in projectHolidays
    THEN Rejected(409, "Holiday already exists for this date")
    ELSE /\ projectHolidays' = projectHolidays \cup {holiday_date}
         /\ auditTx' = <<>>
         /\ alertsTx' = 0
         /\ emailTx' = <<>>
         /\ response' = Ok
         /\ UNCHANGED <<now, notices, nextNoticeId, deadlines, inflight, scores,
                        scoreHistory, call, job, limiter,
                   contractClauses, nextClauseId>>

\* DELETE /projects/{pid}/compliance/holidays/{hid}
delete_holiday(holiday_date) ==
    IF holiday_date \notin projectHolidays
    THEN Rejected(404, "Holiday not found")
    ELSE /\ projectHolidays' = projectHolidays \ {holiday_date}
         /\ auditTx' = <<>>
         /\ alertsTx' = 0
         /\ emailTx' = <<>>
         /\ response' = Ok
         /\ UNCHANGED <<now, notices, nextNoticeId, deadlines, inflight, scores,
                        scoreHistory, call, job, limiter,
                   contractClauses, nextClauseId>>

Next ==
    \/ Tick
    \/ \E body \in DeadlineRequests(now) :
            create_deadline_endpoint(body, MaxDeadlines)
    \/ \E d \in DeadlineIds, reason \in WaiverReasons : waive_deadline(d, reason)
    \/ \E body \in NoticeRequests, d \in DeadlineIds \cup {NULL} :
            create_notice(body, d, MaxNotices)
    \/ \E n \in NoticeIds, body \in UpdateNoticeRequests(EmailInputs, StatusInputs) :
            update_notice_endpoint(n, body)
    \/ \E n \in NoticeIds, sent \in BOOLEAN : send_notice(n, sent)
    \/ \E n \in NoticeIds : delete_notice(n)
    \/ \E n \in NoticeIds : confirm_delivery(n)
    \/ run_severity_cron
    \/ recalculate_severities

(***************************************************************************)
(* The trigger adapter with the deadline engine and the scheduler, without *)
(* notices.                                                                *)
(***************************************************************************)
TriggerDeadlineIds == 1..MaxTriggerDeadlines

NextTrigger ==
    \/ Tick
    \/ \E rfi \in EventIds : trigger_rfi_compliance(rfi)
    \/ \E ce \in EventIds : trigger_change_event_compliance(ce)
    \/ \E body \in DeadlineRequests(now) :
            create_deadline_endpoint(body, MaxTriggerDeadlines)
    \/ \E d \in TriggerDeadlineIds, reason \in WaiverReasons :
            waive_deadline(d, reason)

SpecTrigger == Init /\ [][NextTrigger]_vars

(***************************************************************************)
(* Two trigger calls in flight at once.  A call runs its loop inside its   *)
(* own transaction: it reads the committed rows and flushes its inserts,   *)
(* which the other transaction does not see before the commit of the       *)
(* endpoint (changes.py line 51).                                          *)
(***************************************************************************)
trigger_begin(w, kinds, trigger_event_type, trigger_event_id) ==
    /\ ~inflight[w].open
    /\ LET r == trigger_loop(deadlines, <<>>, MatchingClauses(kinds),
                             trigger_event_type, trigger_event_id, now)
       IN IF r.raised
          THEN Rejected(500, InternalServerError)
          ELSE /\ inflight' = [inflight EXCEPT ![w] =
                        [open |-> TRUE,
                         rows |-> SubSeq(r.deadlines, Len(deadlines) + 1,
                                         Len(r.deadlines))]]
               /\ auditTx' = <<>>
               /\ alertsTx' = 0
               /\ emailTx' = <<>>
               /\ response' = NoResponse
               /\ UNCHANGED <<now, notices, nextNoticeId, deadlines, scores, scoreHistory, call,
                   projectHolidays, job, limiter,
                   contractClauses, nextClauseId>>

trigger_commit(w) ==
    /\ inflight[w].open
    /\ Len(deadlines) + Len(inflight[w].rows) <= MaxRaceDeadlines
    /\ deadlines' = deadlines \o inflight[w].rows
    /\ auditTx' = [i \in 1..Len(inflight[w].rows) |->
                     Audit("DEADLINE_CREATED", "ComplianceDeadline",
                           Len(deadlines) + i)]
    /\ alertsTx' = 0
    /\ emailTx' = <<>>
    /\ response' = Ok
    /\ inflight' = [inflight EXCEPT ![w] = IdleTransaction]
    /\ UNCHANGED <<now, notices, nextNoticeId, scores, scoreHistory, call,
                   projectHolidays, job, limiter,
                   contractClauses, nextClauseId>>

NextRace ==
    \/ Tick
    \/ \E w \in Workers, rfi \in EventIds :
            trigger_begin(w, RFI_CO_CLAUSE_KINDS, "RFI", rfi)
    \/ \E w \in Workers, ce \in EventIds :
            trigger_begin(w, CHANGE_EVENT_CLAUSE_KINDS, "CHANGE_ORDER", ce)
    \/ \E w \in Workers : trigger_commit(w)

SpecRace == Init /\ [][NextRace]_vars

(***************************************************************************)
(* The pure functions of the calendar, of the deadline calculator and of   *)
(* the severity classifier, each applied once to arguments drawn from      *)
(* bounded sets: `call' holds the arguments and, after the call, the       *)
(* result.                                                                 *)
(***************************************************************************)
Dates == 0..MaxDate
HolidaySets == {H \in SUBSET Dates : Cardinality(H) <= MaxHolidays}
\* 00:00:00, 12:00:00 and 23:59:59
TimesOfDay == {0, 43200, EndOfDaySeconds}
Datetimes == {d * SecondsPerDay + t : d \in Dates, t \in TimesOfDay}
DeadlineTypes == {"CALENDAR_DAYS", "BUSINESS_DAYS", "HOURS"}
\* Times to a deadline on both sides of now and of every threshold.
SeverityOffsets ==
    {-1, 0, 1}
    \cup {n * SecondsPerDay + e : n \in {3, 7, 14}, e \in {-1, 0, 1}}

AddBusinessDaysCalls ==
    [fn : {"add_business_days"}, start : Dates, days : 0..MaxDays,
     holidays : HolidaySets, returned : {FALSE}, result : {NULL}]
CalculateDeadlineCalls ==
    [fn : {"calculate_deadline"}, trigger_date : Datetimes,
     deadline_days : (1..MaxDays) \cup {24}, deadline_type : DeadlineTypes,
     returned : {FALSE}, result : {NULL}]
ClassifySeverityCalls ==
    [fn : {"classify_severity"}, nowT : {0, 43200}, offset : SeverityOffsets,
     status : DeadlineStatuses \cup {"NONE"}, returned : {FALSE}, result : {""}]

\* Lists of at most n notices, each of one of the given kinds.
NoticeLists(kinds, n) == UNION {[1..len -> kinds] : len \in 0..n}

\* The notices of a project as calculate_score tells them apart.
ScoredNoticeKinds ==
    {[status |-> "SENT", sentAt |-> 0, onTimeStatus |-> "true"],
     [status |-> "ACKNOWLEDGED", sentAt |-> 0, onTimeStatus |-> "false"],
     [status |-> "DRAFT", sentAt |-> NULL, onTimeStatus |-> "null"]}
CalculateScoreCalls ==
    [fn : {"calculate_score"},
     notices : NoticeLists(ScoredNoticeKinds, MaxScoredNotices),
     returned : {FALSE}, result : {NULL}]

\* The sent notices as _calculate_streak tells them apart.
StreakNoticeKinds ==
    [status : {"SENT"}, sentAt : {NULL, 0, 1, 2},
     onTimeStatus : {"true", "false", "null"}]
CalculateStreakCalls ==
    [fn : {"_calculate_streak"},
     notices : NoticeLists(StreakNoticeKinds, MaxStreakNotices),
     returned : {FALSE}, result : {NULL}]

InitCalendar ==
    /\ now = 0
    /\ notices = <<>>
    /\ nextNoticeId = 1
    /\ deadlines = <<>>
    /\ auditTx = <<>>
    /\ alertsTx = 0
    /\ inflight = [w \in Workers |-> IdleTransaction]
    /\ emailTx = <<>>
    /\ response = NoResponse
    /\ scores = <<>>
    /\ scoreHistory = <<>>
    /\ projectHolidays = {}
    /\ job = NoJob
    /\ limiter = NewLimiter(FALSE)
    /\ contractClauses = <<>>
    /\ nextClauseId = 1
    /\ \/ call \in AddBusinessDaysCalls
       \/ call \in CalculateDeadlineCalls
       \/ call \in ClassifySeverityCalls
       \/ call \in CalculateScoreCalls
       \/ call \in CalculateStreakCalls

Pending(fn) == call.fn = fn /\ ~call.returned
Returned(fn) == call.fn = fn /\ call.returned

Return(result) ==
    /\ call' = [call EXCEPT !.returned = TRUE, !.result = result]
    /\ UNCHANGED <<now, notices, nextNoticeId, deadlines, auditTx, alertsTx,
                   inflight, emailTx, response, scores, scoreHistory,
                   projectHolidays, job, limiter,
                   contractClauses, nextClauseId>>

call_add_business_days ==
    /\ Pending("add_business_days")
    /\ Return(add_business_days(call.start, call.days, call.holidays))

call_calculate_deadline ==
    /\ Pending("calculate_deadline")
    /\ Return(calculate_deadline(call.trigger_date, call.deadline_days,
                                 call.deadline_type, now).calculatedDeadline)

call_classify_severity ==
    /\ Pending("classify_severity")
    /\ Return(classify_severity(call.nowT + call.offset, call.nowT, call.status))

\* The ids of a list in the order of the list.
Ids(list) == [i \in 1..Len(list) |-> i]

\* calculate_score on a project without a score yet; the result is the row.
call_calculate_score ==
    /\ Pending("calculate_score")
    /\ LET InSentStatus(n) == call.notices[n].status \in SentStatuses
       IN Return(calculate_score(call.notices, <<>>, <<>>, now,
                                 SelectSeq(Ids(call.notices), InSentStatus))[1])

call_calculate_streak ==
    /\ Pending("_calculate_streak")
    /\ Return(_calculate_streak(Ids(call.notices), call.notices))

NextCalendar ==
    \/ call_add_business_days
    \/ call_calculate_deadline
    \/ call_classify_severity
    \/ call_calculate_score
    \/ call_calculate_streak

SpecCalendar == InitCalendar /\ [][NextCalendar]_vars

(***************************************************************************)
(* The notice engine with the score: notices without a clause, due at      *)
(* 00:00:00 of day 0 or without a due date.                                *)
(***************************************************************************)
ScoreNoticeIds == 1..MaxScoreNotices
ScoreNoticeRequests ==
    {[clause |-> NULL, due |-> 0, email |-> "gc@example.com"] @@ NoticeText,
     [clause |-> NULL, due |-> NULL, email |-> "gc@example.com"] @@ NoticeText}

NextScore ==
    \/ Tick
    \/ \E body \in ScoreNoticeRequests : create_notice(body, NULL, MaxScoreNotices)
    \/ \E n \in ScoreNoticeIds, body \in UpdateNoticeRequests({NoEmail}, SentStatuses) :
            update_notice_endpoint(n, body)
    \/ \E n \in ScoreNoticeIds : send_notice(n, TRUE)
    \/ \E n \in ScoreNoticeIds : delete_notice(n)
    \/ \E n \in ScoreNoticeIds : confirm_delivery(n)
    \/ \E rows \in RowOrders(SentNotices(notices)) : get_score(rows)
    \/ \E rows \in RowOrders(SentNotices(notices)) :
            recalculate_score_endpoint(rows)

SpecScore == Init /\ [][NextScore]_vars
(***************************************************************************)
(* The score history with the notices that feed it.                        *)
(***************************************************************************)
PeriodTypes == {"daily", "weekly"}

NextHistory ==
    \/ Tick
    \/ \E body \in ScoreNoticeRequests : create_notice(body, NULL, MaxNotices)
    \/ \E n \in NoticeIds : send_notice(n, TRUE)
    \/ \E period_type \in PeriodTypes, rows \in RowOrders(SentNotices(notices)) :
            create_score_snapshot(period_type, rows)
    \/ run_daily_snapshot
    \/ \E sent \in [1..NumAlertUsers -> BOOLEAN] : run_weekly_summary(sent)

SpecHistory == Init /\ [][NextHistory]_vars

(***************************************************************************)
(* The notice engine with the edits of the title, the content and the      *)
(* recipient, by hand and by regeneration.                                 *)
(***************************************************************************)
TextInputs == {NoEmail, "edited"}
ContentUpdateRequests ==
    UpdateNoticeRequest(TextInputs, TextInputs, TextInputs, EmailInputs,
                        {NoEmail, "PENDING_REVIEW", "SENT"})

NextContent ==
    \/ Tick
    \/ \E body \in NoticeRequests : create_notice(body, NULL, MaxNotices)
    \/ \E n \in NoticeIds, body \in ContentUpdateRequests :
            update_notice_endpoint(n, body)
    \/ \E n \in NoticeIds, generated \in BOOLEAN : regenerate_notice(n, generated)
    \/ \E n \in NoticeIds, sent \in BOOLEAN : send_notice(n, sent)
    \/ \E n \in NoticeIds : delete_notice(n)
    \/ \E n \in NoticeIds : confirm_delivery(n)

SpecContent == Init /\ [][NextContent]_vars

(***************************************************************************)
(* The deadlines of a clause counted in business days, with the edits of   *)
(* the project's holidays, the severity passes and the notices.            *)
(***************************************************************************)
\* Monday and Tuesday of the week after day 0.
HolidayDates == {4, 5}
HolidayDeadlineRequests(nowT) ==
    {[clause |-> 2, type |-> "MANUAL", id |-> NULL, at |-> nowT]}
HolidayNoticeRequests ==
    {[clause |-> 2, due |-> NULL, email |-> "gc@example.com"] @@ NoticeText}

NextHolidays ==
    \/ Tick
    \/ \E body \in HolidayDeadlineRequests(now) :
            create_deadline_endpoint(body, MaxDeadlines)
    \/ \E d \in DeadlineIds, reason \in WaiverReasons : waive_deadline(d, reason)
    \/ \E body \in HolidayNoticeRequests, d \in DeadlineIds :
            create_notice(body, d, MaxNotices)
    \/ \E n \in NoticeIds, body \in UpdateNoticeRequests({NoEmail}, {"PENDING_REVIEW"}) :
            update_notice_endpoint(n, body)
    \/ \E n \in NoticeIds : send_notice(n, TRUE)
    \/ \E n \in NoticeIds : delete_notice(n)
    \/ \E n \in NoticeIds : confirm_delivery(n)
    \/ run_severity_cron
    \/ recalculate_severities
    \/ \E holiday_date \in HolidayDates : create_holiday(holiday_date)
    \/ \E holiday_date \in HolidayDates : delete_holiday(holiday_date)

SpecHolidays == Init /\ [][NextHolidays]_vars

(***************************************************************************)
(* The jobs of the scheduler over the projects (compliance_crons.py).  A   *)
(* job opens one session, works through the projects in the order of the   *)
(* query, and commits once after the loop; an exception in the loop leaves *)
(* the with block, and the session closes without a commit.                *)
(***************************************************************************)
Projects == 1..NumProjects
JobNames == {"severity_cron", "daily_snapshot", "weekly_summary"}

\* with sync_session_factory() as session: the query of the projects
job_begin(name, projects) ==
    /\ job.state # "running"
    /\ job' = [name |-> name, state |-> "running", projects |-> projects,
               pos |-> 1, done |-> {}, committed |-> {}]
    /\ auditTx' = <<>>
    /\ alertsTx' = 0
    /\ emailTx' = <<>>
    /\ response' = NoResponse
    /\ UNCHANGED <<now, notices, nextNoticeId, deadlines, inflight, scores,
                   scoreHistory, call, projectHolidays, limiter,
                   contractClauses, nextClauseId>>

\* One turn of the loop over the projects; ok tells whether the statements of
\* the turn ran without an exception.  The weekly job sends its emails in the
\* turn, before the commit.
job_project(ok) ==
    /\ job.state = "running"
    /\ job.pos <= Len(job.projects)
    /\ job' = IF ok
              THEN [job EXCEPT !.done = @ \cup {job.projects[job.pos]},
                               !.pos = @ + 1]
              ELSE [job EXCEPT !.state = "failed"]
    /\ emailTx' = IF ok /\ job.name = "weekly_summary"
                  THEN [u \in 1..NumAlertUsers |-> Email("user@example.com", TRUE)]
                  ELSE <<>>
    /\ auditTx' = <<>>
    /\ alertsTx' = 0
    /\ response' = NoResponse
    /\ UNCHANGED <<now, notices, nextNoticeId, deadlines, inflight, scores,
                   scoreHistory, call, projectHolidays, limiter,
                   contractClauses, nextClauseId>>

\* session.commit() after the loop
job_commit ==
    /\ job.state = "running"
    /\ job.pos > Len(job.projects)
    /\ job' = [job EXCEPT !.state = "finished", !.committed = job.done]
    /\ auditTx' = <<>>
    /\ alertsTx' = 0
    /\ emailTx' = <<>>
    /\ response' = NoResponse
    /\ UNCHANGED <<now, notices, nextNoticeId, deadlines, inflight, scores,
                   scoreHistory, call, projectHolidays, limiter,
                   contractClauses, nextClauseId>>

NextJobs ==
    \/ Tick
    \/ \E name \in JobNames, projects \in RowOrders(Projects) :
            job_begin(name, projects)
    \/ \E ok \in BOOLEAN : job_project(ok)
    \/ job_commit

SpecJobs == Init /\ [][NextJobs]_vars

(***************************************************************************)
(* The severity pass in flight next to the requests.  The pass loads the   *)
(* active deadlines into its session, assigns the attributes that differ   *)
(* from what it loaded, and its flush updates those columns only; a        *)
(* request that commits in between is not read again.                      *)
(***************************************************************************)
\* The query of _run_severity_cron (lines 55-78): the rows as the pass reads
\* them, at the time the pass took for now.
pass_begin(w) ==
    /\ ~inflight[w].open
    /\ deadlines # <<>>
    /\ inflight' = [inflight EXCEPT ![w] =
                        [open |-> TRUE, rows |-> deadlines, at |-> now]]
    /\ auditTx' = <<>>
    /\ alertsTx' = 0
    /\ emailTx' = <<>>
    /\ response' = NoResponse
    /\ UNCHANGED <<now, notices, nextNoticeId, deadlines, scores, scoreHistory, call,
                   projectHolidays, job, limiter,
                   contractClauses, nextClauseId>>

\* The UPDATE of one row: the columns the pass assigned a new value, on top
\* of the row as it is in the table.
flush_assigned(row, loaded, assigned) ==
    [row EXCEPT !.severity = IF assigned.severity # loaded.severity
                             THEN assigned.severity ELSE @,
                !.status = IF assigned.status # loaded.status
                           THEN assigned.status ELSE @]

\* The loop over the loaded rows and session.commit() (lines 80-150)
pass_commit(w) ==
    /\ inflight[w].open
    /\ LET loaded == inflight[w].rows
           pass == severity_cron_pass(loaded, inflight[w].at)
       IN /\ deadlines' =
                [d \in DOMAIN deadlines |->
                    IF d \in DOMAIN loaded
                    THEN flush_assigned(deadlines[d], loaded[d], pass.deadlines[d])
                    ELSE deadlines[d]]
          /\ alertsTx' = pass.alertsSent
    /\ inflight' = [inflight EXCEPT ![w] = IdleTransaction]
    /\ auditTx' = <<>>
    /\ emailTx' = <<>>
    /\ response' = NoResponse
    /\ UNCHANGED <<now, notices, nextNoticeId, scores, scoreHistory, call,
                   projectHolidays, job, limiter,
                   contractClauses, nextClauseId>>

\* The worker of the scheduler that runs the pass.
PassWorker == 1
\* Bodies of POST /deadlines whose severity changes with the clock.
PassDeadlineRequests ==
    {[clause |-> 4, type |-> "MANUAL", id |-> NULL, at |-> 0],
     [clause |-> 1, type |-> "MANUAL", id |-> NULL, at |-> 2 * SecondsPerDay]}

NextPassRace ==
    \/ Tick
    \/ \E body \in PassDeadlineRequests : create_deadline_endpoint(body, MaxDeadlines)
    \/ \E d \in DeadlineIds, reason \in WaiverReasons : waive_deadline(d, reason)
    \/ \E body \in HolidayNoticeRequests, d \in DeadlineIds :
            create_notice(body, d, MaxNotices)
    \/ \E n \in NoticeIds : send_notice(n, TRUE)
    \/ \E n \in NoticeIds : delete_notice(n)
    \/ pass_begin(PassWorker)
    \/ pass_commit(PassWorker)

SpecPassRace == Init /\ [][NextPassRace]_vars

(***************************************************************************)
(* The handlers that call an external service, step by step.  The first    *)
(* query of a handler begins the transaction of its session, which stays   *)
(* open until the commit or the close of the session.                      *)
(***************************************************************************)
ExternalHandlers ==
    {"send_notice", "_run_weekly_summary", "regenerate_notice_draft",
     "extract_clauses_from_document"}

\* send_rfi_email for the first two, generate_response for the others.
ExternalService(handler) ==
    IF handler \in {"send_notice", "_run_weekly_summary"}
    THEN "smtp" ELSE "language_model"

\* The queries before the external call (notices.py 223-248, crons 290-343,
\* notices.py 475-516, parser.py 46-62).
handler_query(w, handler) ==
    /\ ~inflight[w].open
    /\ inflight' = [inflight EXCEPT ![w] =
                        [open |-> TRUE, rows |-> <<>>, handler |-> handler,
                         calling |-> "none", returned |-> FALSE]]
    /\ auditTx' = <<>>
    /\ alertsTx' = 0
    /\ emailTx' = <<>>
    /\ response' = NoResponse
    /\ UNCHANGED <<now, notices, nextNoticeId, deadlines, scores, scoreHistory, call,
                   projectHolidays, job, limiter,
                   contractClauses, nextClauseId>>

\* The handler enters send_rfi_email or generate_response.
handler_call(w) ==
    /\ inflight[w].open
    /\ inflight[w].calling = "none"
    /\ ~inflight[w].returned
    /\ inflight' = [inflight EXCEPT
                        ![w].calling = ExternalService(inflight[w].handler)]
    /\ auditTx' = <<>>
    /\ alertsTx' = 0
    /\ emailTx' = <<>>
    /\ response' = NoResponse
    /\ UNCHANGED <<now, notices, nextNoticeId, deadlines, scores, scoreHistory, call,
                   projectHolidays, job, limiter,
                   contractClauses, nextClauseId>>

\* The external service answers, or fails.
handler_return(w, ok) ==
    /\ inflight[w].open
    /\ inflight[w].calling # "none"
    /\ inflight' = [inflight EXCEPT ![w].calling = "none", ![w].returned = TRUE]
    /\ emailTx' = IF inflight[w].calling = "smtp"
                  THEN <<Email("gc@example.com", ok)>> ELSE <<>>
    /\ auditTx' = <<>>
    /\ alertsTx' = 0
    /\ response' = NoResponse
    /\ UNCHANGED <<now, notices, nextNoticeId, deadlines, scores, scoreHistory, call,
                   projectHolidays, job, limiter,
                   contractClauses, nextClauseId>>

\* The writes after the call and the commit of the endpoint or of the job.
handler_commit(w) ==
    /\ inflight[w].open
    /\ inflight[w].returned
    /\ inflight' = [inflight EXCEPT ![w] = IdleTransaction]
    /\ auditTx' = <<>>
    /\ alertsTx' = 0
    /\ emailTx' = <<>>
    /\ response' = Ok
    /\ UNCHANGED <<now, notices, nextNoticeId, deadlines, scores, scoreHistory, call,
                   projectHolidays, job, limiter,
                   contractClauses, nextClauseId>>

NextExternal ==
    \/ Tick
    \/ \E w \in Workers, handler \in ExternalHandlers : handler_query(w, handler)
    \/ \E w \in Workers : handler_call(w)
    \/ \E w \in Workers, ok \in BOOLEAN : handler_return(w, ok)
    \/ \E w \in Workers : handler_commit(w)

SpecExternal == Init /\ [][NextExternal]_vars

(***************************************************************************)
(* The rate limiter (auth/rate_limit.py) behind get_current_user.          *)
(***************************************************************************)
LimiterKeys == 1..NumLimiterKeys

\* RateLimiter.check: the store after the call and the value returned.
check(lim, key) ==
    IF lim.is_development THEN [store |-> lim.store, allowed |-> TRUE]
    ELSE IF key \in DOMAIN lim.store
    THEN LET count == lim.store[key][1]
             reset_at == lim.store[key][2]
         IN IF lim.time > reset_at
            THEN [store |-> [lim.store EXCEPT
                                ![key] = <<1, lim.time + LimiterWindowSeconds>>],
                  allowed |-> TRUE]
            ELSE IF count >= LimiterMaxRequests
            THEN [store |-> lim.store, allowed |-> FALSE]
            ELSE [store |-> [lim.store EXCEPT ![key] = <<count + 1, reset_at>>],
                  allowed |-> TRUE]
    ELSE [store |-> (key :> <<1, lim.time + LimiterWindowSeconds>>) @@ lim.store,
          allowed |-> TRUE]

\* dependencies.get_current_user, lines 37-39: a request of the user key.
rate_limited_request(key) ==
    LET checked == check(limiter, key)
        times == IF key \in DOMAIN limiter.allowed THEN limiter.allowed[key] ELSE <<>>
    IN /\ Len(times) < MaxLimiterRequests
       /\ limiter' =
             [limiter EXCEPT
                !.store = checked.store,
                !.allowed = IF checked.allowed
                            THEN (key :> Append(times, limiter.time)) @@ @
                            ELSE @]
       /\ response' = IF checked.allowed THEN Ok
                      ELSE [status_code |-> 429, detail |-> "Rate limit exceeded"]
       /\ auditTx' = <<>>
       /\ alertsTx' = 0
       /\ emailTx' = <<>>
       /\ UNCHANGED <<now, notices, nextNoticeId, deadlines, inflight, scores,
                      scoreHistory, call, projectHolidays, job,
                   contractClauses, nextClauseId>>

\* time.time() moves on by a second.
limiter_clock ==
    /\ limiter.time < MaxLimiterTime
    /\ limiter' = [limiter EXCEPT !.time = @ + 1]
    /\ response' = NoResponse
    /\ auditTx' = <<>>
    /\ alertsTx' = 0
    /\ emailTx' = <<>>
    /\ UNCHANGED <<now, notices, nextNoticeId, deadlines, inflight, scores,
                   scoreHistory, call, projectHolidays, job,
                   contractClauses, nextClauseId>>

InitRateLimit ==
    /\ now = 0
    /\ notices = <<>>
    /\ nextNoticeId = 1
    /\ deadlines = <<>>
    /\ auditTx = <<>>
    /\ alertsTx = 0
    /\ inflight = [w \in Workers |-> IdleTransaction]
    /\ emailTx = <<>>
    /\ response = NoResponse
    /\ scores = <<>>
    /\ scoreHistory = <<>>
    /\ call = NoCall
    /\ projectHolidays = {}
    /\ job = NoJob
    /\ \E is_development \in BOOLEAN : limiter = NewLimiter(is_development)
    /\ contractClauses = <<>>
    /\ nextClauseId = 1

NextRateLimit ==
    \/ \E key \in LimiterKeys : rate_limited_request(key)
    \/ limiter_clock

SpecRateLimit == InitRateLimit /\ [][NextRateLimit]_vars

(***************************************************************************)
(* Score requests in flight at once.  calculate_score reads the committed  *)
(* rows, and its insert or its update reaches the table with the commit of *)
(* the endpoint; ComplianceScore has no unique constraint on the project.  *)
(***************************************************************************)
\* calculate_score up to its flush (scoring.py lines 41-146)
score_begin(w, rows) ==
    /\ ~inflight[w].open
    /\ LET scored == calculate_score(notices, deadlines, scores, now, rows)
       IN inflight' = [inflight EXCEPT ![w] =
            [open |-> TRUE,
             rows |-> <<scored[IF scores = <<>> THEN 1 ELSE latest_score(scores)]>>,
             index |-> IF scores = <<>> THEN 0 ELSE latest_score(scores)]]
    /\ auditTx' = <<>>
    /\ alertsTx' = 0
    /\ emailTx' = <<>>
    /\ response' = NoResponse
    /\ UNCHANGED <<now, notices, nextNoticeId, deadlines, scores, scoreHistory, call,
                   projectHolidays, job, limiter,
                   contractClauses, nextClauseId>>

\* await db.commit() of get_score and of recalculate_score_endpoint
score_commit(w) ==
    /\ inflight[w].open
    /\ scores' = IF inflight[w].index = 0
                 THEN Append(scores, inflight[w].rows[1])
                 ELSE [scores EXCEPT ![inflight[w].index] = inflight[w].rows[1]]
    /\ inflight' = [inflight EXCEPT ![w] = IdleTransaction]
    /\ auditTx' = <<>>
    /\ alertsTx' = 0
    /\ emailTx' = <<>>
    /\ response' = Ok
    /\ UNCHANGED <<now, notices, nextNoticeId, deadlines, scoreHistory, call,
                   projectHolidays, job, limiter,
                   contractClauses, nextClauseId>>

NextScoreRace ==
    \/ Tick
    \/ \E body \in ScoreNoticeRequests : create_notice(body, NULL, MaxNotices)
    \/ \E n \in NoticeIds : send_notice(n, TRUE)
    \/ \E w \in Workers, rows \in RowOrders(SentNotices(notices)) : score_begin(w, rows)
    \/ \E w \in Workers : score_commit(w)

SpecScoreRace == Init /\ [][NextScoreRace]_vars

(***************************************************************************)
(* Clause extractor (parser.py) with POST /parse-contract and              *)
(* PATCH /clauses/{id}/confirm.  A stored clause is a row of               *)
(* contractClauses; its text and its deadline parameters are those of      *)
(* ContractClause[key].  The language model is deterministic: the response *)
(* to a document is a function of the document.                            *)
(***************************************************************************)
\* The documents of the project that have text chunks.
Documents == {1, 2, 3, 4}
\* An id that no document of the project has.
UnknownDocument == 5
\* The kinds of ContractClauseKind that the clauses of the project use.
VALID_KINDS == {ContractClause[c].kind : c \in ClauseIds}

\* An entry of the JSON array the model answers with.
RawClause(key, kind, title, requires_review) ==
    [key |-> key, kind |-> kind, title |-> title, requiresReview |-> requires_review]

\* _parse_clause_json of the answer of the model to each document: two
\* clauses, one of them flagged for review; a clause between two entries that
\* are not valid; no clause at all; the same clause listed twice.
ExtractionResponse ==
    [d \in Documents |->
        CASE d = 1 -> <<RawClause(1, "CLAIMS_PROCEDURE", "Claims", FALSE),
                        RawClause(5, "CLAIMS_PROCEDURE", "Disputes", TRUE)>>
          [] d = 2 -> <<RawClause(2, "INDEMNITY", "Indemnity", FALSE),
                        RawClause(2, "CHANGE_ORDER_PROCESS", "Changes", TRUE),
                        RawClause(3, "NOTICE_REQUIREMENTS", "", FALSE)>>
          [] d = 3 -> <<>>
          [] d = 4 -> <<RawClause(4, "PAYMENT_TERMS", "Payment", FALSE),
                        RawClause(4, "PAYMENT_TERMS", "Payment", FALSE)>>]

\* _build_clause returns None for a kind outside the enumeration and for an
\* entry without a title.
is_valid_clause(raw) == raw.kind \in VALID_KINDS /\ raw.title # ""

\* The rows built from the valid entries, with new ids from next_id on.
build_clauses(raw_clauses, document_id, next_id) ==
    LET valid == SelectSeq(raw_clauses, is_valid_clause)
    IN [i \in 1..Len(valid) |->
           [id |-> next_id + i - 1,
            key |-> valid[i].key,
            requiresReview |-> valid[i].requiresReview,
            confirmed |-> FALSE,
            aiExtracted |-> TRUE,
            sourceDocId |-> document_id]]

\* The rows a re-extraction keeps when it never deletes.
kept_clauses_all(rows, document_id) == rows

\* The rows a re-extraction keeps: all but the AI-extracted ones of the document.
kept_clauses(rows, document_id) ==
    LET other(row) == ~(row.sourceDocId = document_id /\ row.aiExtracted)
    IN SelectSeq(rows, other)

\* The flush fails when a deadline refers to a clause that is to be deleted
\* (ComplianceDeadline.clauseId is NOT NULL with ON DELETE RESTRICT).
delete_restricted(rows, dls, document_id) ==
    \E i \in DOMAIN rows, d \in DOMAIN dls :
        /\ rows[i].sourceDocId = document_id
        /\ rows[i].aiExtracted
        /\ dls[d].clauseId = rows[i].id

\* extract_clauses_from_document after the answer of the model: the table
\* and the next id it leaves, whether it wrote, and whether the flush raised.
extraction(rows, next_id, dls, document_id) ==
    LET raw_clauses == ExtractionResponse[document_id]
        created == build_clauses(raw_clauses, document_id, next_id)
    IN IF raw_clauses = <<>>
       THEN [clauses |-> rows, nextId |-> next_id, wrote |-> FALSE, raised |-> FALSE]
       ELSE IF delete_restricted(rows, dls, document_id)
       THEN [clauses |-> rows, nextId |-> next_id, wrote |-> FALSE, raised |-> TRUE]
       ELSE [clauses |-> kept_clauses(rows, document_id) \o created,
             nextId |-> next_id + Len(created),
             wrote |-> TRUE, raised |-> FALSE]

\* POST /projects/{pid}/compliance/parse-contract; ok is whether
\* generate_response returned.
parse_contract(document_id, ok) ==
    IF document_id \notin Documents
    THEN Rejected(400, "Document not found in project")
    ELSE IF ~ok THEN Rejected(500, "Failed to extract clauses")
    ELSE LET r == extraction(contractClauses, nextClauseId, deadlines, document_id)
         IN IF r.raised THEN Rejected(500, "Failed to extract clauses")
            ELSE /\ r.nextId <= MaxClauseRows + 1
                 /\ contractClauses' = r.clauses
                 /\ nextClauseId' = r.nextId
                 /\ auditTx' = IF r.wrote
                               THEN <<Audit("CLAUSE_EXTRACTION", "Document",
                                            document_id)>>
                               ELSE <<>>
                 /\ alertsTx' = 0
                 /\ emailTx' = <<>>
                 /\ response' = Ok
                 /\ UNCHANGED <<now, notices, nextNoticeId, deadlines, inflight,
                                scores, scoreHistory, call, projectHolidays, job,
                                limiter>>

\* The position of the stored clause with the id, 0 when there is none.
clause_row(rows, clause_id) ==
    IF \E i \in DOMAIN rows : rows[i].id = clause_id
    THEN CHOOSE i \in DOMAIN rows : rows[i].id = clause_id
    ELSE 0

\* PATCH /projects/{pid}/compliance/clauses/{clause_id}/confirm
confirm_clause(clause_id) ==
    LET i == clause_row(contractClauses, clause_id)
    IN IF i = 0 THEN Rejected(404, "Clause not found")
       ELSE /\ contractClauses' = [contractClauses EXCEPT ![i].confirmed = TRUE,
                                                          ![i].requiresReview = FALSE]
            /\ auditTx' = <<Audit("CLAUSE_CONFIRMED", "ContractClause", clause_id)>>
            /\ alertsTx' = 0
            /\ emailTx' = <<>>
            /\ response' = Ok
            /\ UNCHANGED <<now, notices, nextNoticeId, deadlines, inflight, scores,
                           scoreHistory, call, projectHolidays, job, limiter,
                           nextClauseId>>

\* POST /projects/{pid}/compliance/deadlines for a stored clause: the
\* deadline refers to the row of the clause.
create_deadline_for_clause(clause_id, cap) ==
    LET i == clause_row(contractClauses, clause_id)
        rows == IF i = 0 THEN <<>>
                ELSE create_deadline(contractClauses[i].key, "MANUAL", NULL, now, now)
    IN IF rows = <<>>
       THEN Rejected(400, "Failed to create deadline - check clause parameters")
       ELSE /\ Len(deadlines) < cap
            /\ deadlines' = Append(deadlines, [rows[1] EXCEPT !.clauseId = clause_id])
            /\ auditTx' = <<Audit("DEADLINE_CREATED", "ComplianceDeadline",
                                  Len(deadlines) + 1)>>
            /\ alertsTx' = 0
            /\ emailTx' = <<>>
            /\ response' = Ok
            /\ UNCHANGED <<now, notices, nextNoticeId, inflight, scores,
                           scoreHistory, call, projectHolidays, job, limiter,
                           contractClauses, nextClauseId>>

StoredClauseIds == 1..MaxClauseRows

NextExtract ==
    \/ \E document_id \in Documents \cup {UnknownDocument}, ok \in BOOLEAN :
            parse_contract(document_id, ok)
    \/ \E c \in StoredClauseIds : confirm_clause(c)
    \/ \E c \in StoredClauseIds : create_deadline_for_clause(c, MaxDeadlines)
    \/ \E d \in DeadlineIds, reason \in WaiverReasons : waive_deadline(d, reason)

SpecExtract == Init /\ [][NextExtract]_vars

(***************************************************************************)
(* Two send_notice requests in flight at once.  A request loads the notice *)
(* and checks its status, awaits the queries for the project and the user, *)
(* and only then sends the email, assigns the columns and commits; the     *)
(* row is read without a lock and has no version column.                   *)
(***************************************************************************)
\* notices.py 223-237: the notice is loaded and checked.
send_begin(w, notice_id) ==
    /\ ~inflight[w].open
    /\ IF ~NoticeExists(notice_id) THEN Rejected(404, "Notice not found")
       ELSE IF notices[notice_id].status \notin EditableStatuses
       THEN Rejected(400, StatusError("Cannot send notice in ",
                                      notices[notice_id].status))
       ELSE IF ~Truthy(notices[notice_id].recipientEmail)
       THEN Rejected(400, "Notice has no recipient email")
       ELSE /\ inflight' = [inflight EXCEPT ![w] =
                   [open |-> TRUE, rows |-> <<>>, notice_id |-> notice_id,
                    notice |-> notices[notice_id]]]
            /\ auditTx' = <<>>
            /\ alertsTx' = 0
            /\ emailTx' = <<>>
            /\ response' = NoResponse
            /\ UNCHANGED <<now, notices, nextNoticeId, deadlines, scores,
                           scoreHistory, call, projectHolidays, job, limiter,
                           contractClauses, nextClauseId>>

\* notices.py 239-306 and the commit of send_notice_endpoint: the email goes
\* out, and the columns assigned on the loaded notice are written over the
\* row as it is by then.
send_finish(w, sent) ==
    /\ inflight[w].open
    /\ LET notice_id == inflight[w].notice_id
           notice == inflight[w].notice
       IN IF notice.clauseId # NULL /\ Cardinality(LinkedDeadlines(notice_id)) > 1
          THEN /\ UNCHANGED <<notices, deadlines>>
               /\ auditTx' = <<>>
               /\ response' = [status_code |-> 500, detail |-> InternalServerError]
               /\ emailTx' = <<Email(notice.recipientEmail, sent)>>
          ELSE /\ notices' = [notices EXCEPT ![notice_id] =
                      [@ EXCEPT !.status = "SENT",
                                !.sentAt = now,
                                !.deliveredAt = delivered_at(sent, now),
                                !.onTimeStatus =
                                    IF on_time_status(notice.dueDate, now)
                                    THEN "true" ELSE "false"]]
               /\ deadlines' =
                      IF notice.clauseId # NULL
                      THEN [d \in DOMAIN deadlines |->
                               IF d \in LinkedDeadlines(notice_id)
                               THEN [deadlines[d] EXCEPT !.status = "NOTICE_SENT"]
                               ELSE deadlines[d]]
                      ELSE deadlines
               /\ auditTx' = <<AuditDetails("NOTICE_SENT", "ComplianceNotice",
                                 notice_id,
                                 [recipientEmail |-> notice.recipientEmail,
                                  emailSent |-> sent,
                                  onTime |-> on_time_status(notice.dueDate, now)])>>
               /\ response' = Ok
               /\ emailTx' = <<Email(notice.recipientEmail, sent)>>
    /\ inflight' = [inflight EXCEPT ![w] = IdleTransaction]
    /\ alertsTx' = 0
    /\ UNCHANGED <<now, nextNoticeId, scores, scoreHistory, call,
                   projectHolidays, job, limiter, contractClauses, nextClauseId>>

NextSendRace ==
    \/ Tick
    \/ \E body \in DeadlineRequests(now) :
            create_deadline_endpoint(body, MaxDeadlines)
    \/ \E body \in NoticeRequests, d \in DeadlineIds \cup {NULL} :
            create_notice(body, d, MaxNotices)
    \/ \E w \in Workers, n \in NoticeIds : send_begin(w, n)
    \/ \E w \in Workers, sent \in BOOLEAN : send_finish(w, sent)

SpecSendRace == Init /\ [][NextSendRace]_vars

(***************************************************************************)
(* The prompt of a notice draft (notices.generate_notice_draft and         *)
(* notices.regenerate_notice_draft) over the clauses of two projects.  The *)
(* requests are those of project 1; clause 3 belongs to project 2, and its *)
(* text differs from one table to the other.                               *)
(***************************************************************************)
\* The text of the clause of project 2, "none" when the clause is not stored.
OtherProjectTexts == {"none", "Liquidated damages", "Termination"}

\* The rows of ContractClause of both projects, by id.
ClauseTable(other_text) ==
    LET own == (1 :> [projectId |-> 1, title |-> "Claims",
                      content |-> "Notice of claim within 1 day"])
               @@ (2 :> [projectId |-> 1, title |-> "Changes",
                         content |-> "Notice of change within 2 business days"])
    IN IF other_text = "none" THEN own
       ELSE own @@ (3 :> [projectId |-> 2, title |-> "Damages",
                          content |-> other_text])

\* NOTICE_GENERATION_USER.format(...): the fields of the prompt that differ
\* from one call to another.
user_prompt(project_id, clause, trigger_description, additional_context) ==
    [project_name |-> project_id,
     clause_title |-> clause.title,
     clause_content |-> clause.content,
     trigger_description |-> trigger_description,
     additional_context |-> IF additional_context = "" THEN "None"
                            ELSE additional_context]

\* The user prompt generate_notice_draft hands to the model, or the message
\* of the ValueError it raises.
generate_notice_draft(table, project_id, clause_id, trigger_description, additional_context) ==
    IF clause_id \notin DOMAIN table
    THEN [error |-> "Clause not found"]
    ELSE [user_prompt |-> user_prompt(project_id, table[clause_id],
                                      trigger_description, additional_context)]

\* The same for regenerate_notice_draft on a notice without a deadline.
regenerate_notice_draft(table, project_id, notice, custom_instructions) ==
    IF notice.status \notin EditableStatuses
    THEN [error |-> StatusError("Cannot regenerate notice in ", notice.status)]
    ELSE IF notice.clauseId = NULL
    THEN [error |-> "Notice has no linked clause"]
    ELSE IF notice.clauseId \notin DOMAIN table
    THEN [error |-> "Linked clause not found"]
    ELSE [user_prompt |-> user_prompt(project_id, table[notice.clauseId],
                                      "Manual notice", custom_instructions)]

\* The clause ids a request of project 1 can name: its own clauses, the
\* clause of project 2, and an id that no clause has.
DraftClauseIds == {1, 2, 3, 4}
DraftTexts == {"", "owner directive"}

\* Calls on two tables that differ in the clause of project 2 only.
GenerateDraftCalls ==
    [fn : {"generate_notice_draft"}, returned : {FALSE}, result : {<<>>},
     other : OtherProjectTexts, other_changed : OtherProjectTexts,
     clause_id : DraftClauseIds,
     trigger_description : {"RFI 12 flagged", "Change event 7"},
     additional_context : DraftTexts]

RegenerateDraftCalls ==
    [fn : {"regenerate_notice_draft"}, returned : {FALSE}, result : {<<>>},
     other : OtherProjectTexts, other_changed : OtherProjectTexts,
     notice : [status : {"DRAFT", "SENT"}, clauseId : DraftClauseIds \cup {NULL}],
     custom_instructions : DraftTexts]

InitDraft ==
    /\ now = 0
    /\ notices = <<>>
    /\ nextNoticeId = 1
    /\ deadlines = <<>>
    /\ auditTx = <<>>
    /\ alertsTx = 0
    /\ inflight = [w \in Workers |-> IdleTransaction]
    /\ emailTx = <<>>
    /\ response = NoResponse
    /\ scores = <<>>
    /\ scoreHistory = <<>>
    /\ projectHolidays = {}
    /\ job = NoJob
    /\ limiter = NewLimiter(FALSE)
    /\ contractClauses = <<>>
    /\ nextClauseId = 1
    /\ \/ call \in GenerateDraftCalls
       \/ call \in RegenerateDraftCalls

\* The request of project 1 runs on each of the two tables.
call_generate_notice_draft ==
    /\ Pending("generate_notice_draft")
    /\ Return(<<generate_notice_draft(ClauseTable(call.other), 1, call.clause_id,
                    call.trigger_description, call.additional_context),
                generate_notice_draft(ClauseTable(call.other_changed), 1,
                    call.clause_id, call.trigger_description,
                    call.additional_context)>>)

call_regenerate_notice_draft ==
    /\ Pending("regenerate_notice_draft")
    /\ Return(<<regenerate_notice_draft(ClauseTable(call.other), 1, call.notice,
                    call.custom_instructions),
                regenerate_notice_draft(ClauseTable(call.other_changed), 1,
                    call.notice, call.custom_instructions)>>)

NextDraft ==
    \/ call_generate_notice_draft
    \/ call_regenerate_notice_draft

SpecDraft == InitDraft /\ [][NextDraft]_vars

Spec == Init /\ [][Next]_vars

(***************************************************************************)
(* Properties.                                                             *)
(***************************************************************************)
\* The operation of a step, read from the audit entry it wrote.
SendActed(n) ==
    /\ Len(auditTx') = 1
    /\ auditTx'[1].eventType = "NOTICE_SENT"
    /\ auditTx'[1].entityType = "ComplianceNotice"
    /\ auditTx'[1].entityId = n

\* C1: whenever send_notice moves a notice from DRAFT or PENDING_REVIEW to
\* SENT, it records sentAt = now and stores onTimeStatus = true if dueDate is
\* null or sentAt <= dueDate, and false otherwise.
C1_SendStoresOnTimeStatus ==
    [][\A n \in NoticeIds :
          (NoticeExists(n) /\ notices[n].status \in EditableStatuses /\ SendActed(n))
          => /\ notices'[n].status = "SENT"
             /\ notices'[n].sentAt = now
             /\ notices'[n].onTimeStatus =
                   IF notices[n].dueDate = NULL
                      \/ notices'[n].sentAt <= notices[n].dueDate
                   THEN "true" ELSE "false"]_vars

\* A notice sent exactly at its due date and stored as on time.
C1_Witness ==
    \E n \in DOMAIN notices :
        /\ notices[n].status = "SENT"
        /\ notices[n].dueDate # NULL
        /\ notices[n].sentAt = notices[n].dueDate
        /\ notices[n].onTimeStatus = "true"
        /\ Len(auditTx) = 1
        /\ auditTx[1].eventType = "NOTICE_SENT"
        /\ auditTx[1].entityId = n

\* C2: a notice's onTimeStatus is null until the notice transitions into
\* SENT, is written by that transition, and never changes afterwards: every
\* step that changes it is a transition into SENT of a notice whose
\* onTimeStatus was null, and every transition into SENT writes it.
C2_OnTimeStatusWrittenOnceOnSend ==
    [][\A n \in DOMAIN notices \cap DOMAIN notices' :
          /\ notices'[n].onTimeStatus # notices[n].onTimeStatus
             => /\ notices[n].onTimeStatus = "null"
                /\ notices[n].status # "SENT"
                /\ notices'[n].status = "SENT"
          /\ (notices[n].status # "SENT" /\ notices'[n].status = "SENT")
             => notices'[n].onTimeStatus # "null"]_vars

\* C3: a notice enters ACKNOWLEDGED only from SENT, and enters SENT only by a
\* send from DRAFT or PENDING_REVIEW.
C3_NoticeLifecycle ==
    [][\A n \in DOMAIN notices \cap DOMAIN notices' :
          /\ (notices'[n].status = "ACKNOWLEDGED" /\ notices[n].status # "ACKNOWLEDGED")
             => notices[n].status = "SENT"
          /\ (notices'[n].status = "SENT" /\ notices[n].status # "SENT")
             => (notices[n].status \in EditableStatuses /\ SendActed(n))]_vars

\* C4: once a deadline is WAIVED or EXPIRED, no step changes its status.
C4_TerminalDeadlinesPersist ==
    [][\A d \in DOMAIN deadlines :
          deadlines[d].status \in {"WAIVED", "EXPIRED"}
          => deadlines'[d].status = deadlines[d].status]_vars

\* The audit entries of the last transaction for the deadline d.
DeadlineAuditEntries(entries, d) ==
    {i \in DOMAIN entries : /\ entries[i].entityType = "ComplianceDeadline"
                            /\ entries[i].entityId = d}

\* C5: every step that creates a deadline or changes its status or severity
\* writes, in the same transaction, exactly one audit entry with entityType
\* "ComplianceDeadline" and that deadline's id.
C5_DeadlineChangeAudited ==
    [][\A d \in DOMAIN deadlines' :
          (\/ d \notin DOMAIN deadlines
           \/ deadlines'[d].status # deadlines[d].status
           \/ deadlines'[d].severity # deadlines[d].severity)
          => Cardinality(DeadlineAuditEntries(auditTx', d)) = 1]_vars

\* C6: after send_notice succeeds on a notice a deadline links to, that
\* deadline's status is NOTICE_SENT, with or without a clauseId on the notice.
C6_SendCascadesToDeadline ==
    [][\A n \in NoticeIds :
          (NoticeExists(n) /\ SendActed(n))
          => \A d \in DOMAIN deadlines :
                deadlines[d].noticeId = n => deadlines'[d].status = "NOTICE_SENT"]_vars

\* The triggers of the adapter: clause kinds, trigger type and event id.
AdapterTriggers ==
    {[kinds |-> RFI_CO_CLAUSE_KINDS, type |-> "RFI", id |-> e] : e \in EventIds}
    \cup {[kinds |-> CHANGE_EVENT_CLAUSE_KINDS, type |-> "CHANGE_ORDER", id |-> e] :
            e \in EventIds}

TriggerCall(dls, tr, nowT) ==
    trigger_loop(dls, <<>>, MatchingClauses(tr.kinds), tr.type, tr.id, nowT)

SameTuple(row, clause_id, tr) ==
    /\ row.clauseId = clause_id
    /\ row.triggerEventType = tr.type
    /\ row.triggerEventId = tr.id

\* The non-terminal deadlines of a tuple, counted without the adapter's query.
NonTerminalOfTuple(dls, clause_id, tr) ==
    {d \in DOMAIN dls : SameTuple(dls[d], clause_id, tr)
                        /\ dls[d].status \notin {"EXPIRED", "WAIVED"}}

\* C7: in every reachable state a trigger call that does not raise creates no
\* deadline for a clause whose tuple already has a non-terminal deadline,
\* leaves exactly one non-terminal deadline for every clause it created one
\* for, and the same call made again right after it creates nothing.
C7_TriggerIdempotent ==
    \A tr \in AdapterTriggers :
        LET first == TriggerCall(deadlines, tr, now)
            second == TriggerCall(first.deadlines, tr, now)
        IN ~first.raised
           => /\ \A c \in ClauseIds :
                    NonTerminalOfTuple(deadlines, c, tr) # {}
                    => \A i \in DOMAIN first.created :
                          first.deadlines[first.created[i]].clauseId # c
              /\ \A i \in DOMAIN first.created :
                    Cardinality(NonTerminalOfTuple(first.deadlines,
                        first.deadlines[first.created[i]].clauseId, tr)) = 1
              /\ ~second.raised
              /\ second.created = <<>>
              /\ second.deadlines = first.deadlines

\* The RFI trigger has created the deadlines of both matching clauses in one
\* transaction, and a later call finds them.
C7_Witness ==
    /\ Len(auditTx) = 2
    /\ \A i \in DOMAIN auditTx : auditTx[i].eventType = "DEADLINE_CREATED"
    /\ \A c \in {1, 2} :
          Cardinality(NonTerminalOfTuple(deadlines, c,
              [kinds |-> RFI_CO_CLAUSE_KINDS, type |-> "RFI", id |-> 1])) = 1

\* C8: trigger calls that run concurrently leave at most one non-terminal
\* deadline per (clauseId, triggerEventId, triggerEventType).
C8_ConcurrentTriggersNoDuplicate ==
    \A tr \in AdapterTriggers, c \in ClauseIds :
        Cardinality(NonTerminalOfTuple(deadlines, c, tr)) <= 1

\* C9: after a severity pass at time now, every deadline that was ACTIVE or
\* NOTICE_DRAFTED and had calculatedDeadline <= now is EXPIRED.
C9_PassExpiresPastDue ==
    [][run_severity_cron
       => \A d \in DOMAIN deadlines :
             (deadlines[d].status \in ActiveStatuses
              /\ deadlines[d].calculatedDeadline <= now)
             => deadlines'[d].status = "EXPIRED"]_vars

\* C10: a second severity pass at the same time as the pass just run changes
\* no deadline and creates no notification.
C10_SecondPassNoOp ==
    [][run_severity_cron
       => LET second == severity_cron_pass(deadlines', now')
          IN /\ second.deadlines = deadlines'
             /\ second.alertsSent = 0]_vars

(***************************************************************************)
(* Properties of the calendar, the calculator and the classifier.          *)
(***************************************************************************)
\* The day of the week of a date; day 0 is Thursday 2025-07-03.
DayName(d) == <<"Thu", "Fri", "Sat", "Sun", "Mon", "Tue", "Wed">>[(d % 7) + 1]

\* Monday to Friday and not a holiday.
WorkingDay(d, H) == DayName(d) \notin {"Sat", "Sun"} /\ d \notin H

\* r is the k-th working day strictly after start.
KthWorkingDayAfter(r, k, start, H) ==
    /\ r > start
    /\ WorkingDay(r, H)
    /\ Cardinality({d \in (start + 1)..r : WorkingDay(d, H)}) = k

\* C11: for every start date, holiday set H and k > 0, add_business_days
\* returns the k-th business day (Monday to Friday, not in H) strictly after
\* start, and count_business_days_between(start, result, H) = k; Friday plus
\* 1 is Monday, or Tuesday when that Monday is in H.
C11_AddBusinessDays ==
    (Returned("add_business_days") /\ call.days > 0)
    => /\ KthWorkingDayAfter(call.result, call.days, call.start, call.holidays)
       /\ count_business_days_between(call.start, call.result, call.holidays)
             = call.days
       /\ (DayName(call.start) = "Fri" /\ call.days = 1)
          => /\ (call.start + 3) \notin call.holidays
                => call.result = call.start + 3
             /\ ((call.start + 3) \in call.holidays
                 /\ (call.start + 4) \notin call.holidays)
                => call.result = call.start + 4

\* Friday plus one business day, with the Monday a holiday, returned Tuesday.
C11_Witness ==
    /\ Returned("add_business_days")
    /\ DayName(call.start) = "Fri"
    /\ call.days = 1
    /\ call.holidays = {call.start + 3}
    /\ DayName(call.result) = "Tue"

\* C12: calculate_deadline returns triggeredAt + n hours for HOURS, whatever
\* the days in between, and otherwise 23:59:59 on the date n calendar days, or
\* n business days (the federal holidays excluded), after the trigger date.
C12_CalculateDeadline ==
    Returned("calculate_deadline")
    => LET n == call.deadline_days
           trigger_day == call.trigger_date \div 86400
       IN CASE call.deadline_type = "HOURS" ->
                 call.result = call.trigger_date + n * 3600
            [] call.deadline_type = "CALENDAR_DAYS" ->
                 /\ call.result % 86400 = 86399
                 /\ call.result \div 86400 = trigger_day + n
            [] call.deadline_type = "BUSINESS_DAYS" ->
                 /\ call.result % 86400 = 86399
                 /\ KthWorkingDayAfter(call.result \div 86400, n, trigger_day,
                                       FEDERAL_HOLIDAYS)

\* 24 hours from Friday noon is Saturday noon.
C12_Witness ==
    /\ Returned("calculate_deadline")
    /\ call.deadline_type = "HOURS"
    /\ call.deadline_days = 24
    /\ DayName(call.trigger_date \div 86400) = "Fri"
    /\ call.trigger_date % 86400 = 43200
    /\ DayName(call.result \div 86400) = "Sat"
    /\ call.result % 86400 = 43200

\* C13: classify_severity returns LOW for the statuses COMPLETED, WAIVED and
\* NOTICE_SENT; otherwise EXPIRED when deadline <= now; otherwise CRITICAL,
\* WARNING, INFO or LOW as the remaining time is at most 3 days, at most 7
\* days, at most 14 days, or more.
C13_ClassifySeverity ==
    Returned("classify_severity")
    => LET remaining == call.offset
       IN call.result =
            CASE call.status \in {"COMPLETED", "WAIVED", "NOTICE_SENT"} -> "LOW"
              [] OTHER ->
                   CASE remaining <= 0 -> "EXPIRED"
                     [] remaining > 0 /\ remaining <= 3 * 86400 -> "CRITICAL"
                     [] remaining > 3 * 86400 /\ remaining <= 7 * 86400 -> "WARNING"
                     [] remaining > 7 * 86400 /\ remaining <= 14 * 86400 -> "INFO"
                     [] remaining > 14 * 86400 -> "LOW"

\* A deadline exactly equal to now, of an active deadline, classified EXPIRED.
C13_Witness ==
    /\ Returned("classify_severity")
    /\ call.status = "ACTIVE"
    /\ call.offset = 0
    /\ call.result = "EXPIRED"

(***************************************************************************)
(* Properties of the score.                                                *)
(***************************************************************************)
\* C14: every stored ComplianceScore has
\* currentStreak <= bestStreak <= onTimeCount <= totalCount.
C14_ScoreOrdering ==
    \A i \in DOMAIN scores :
        /\ scores[i].currentStreak <= scores[i].bestStreak
        /\ scores[i].bestStreak <= scores[i].onTimeCount
        /\ scores[i].onTimeCount <= scores[i].totalCount

\* A score recalculated after a late notice broke a streak of one.
C14_Witness ==
    \E i \in DOMAIN scores :
        /\ scores[i].currentStreak = 0
        /\ scores[i].bestStreak = 1
        /\ scores[i].onTimeCount = 1
        /\ scores[i].totalCount = 2
        /\ scores[i].streakBrokenAt # NULL

\* C15: calculate_score sets score to onTimeCount / totalCount x 100 rounded
\* to the nearest integer, the counts taken over the notices in SENT or
\* ACKNOWLEDGED, and to score = 100 with currentStreak = 0 when there is no
\* such notice.
C15_ScoreFormula ==
    Returned("calculate_score")
    => LET sent == {i \in DOMAIN call.notices :
                       call.notices[i].status \in {"SENT", "ACKNOWLEDGED"}}
           total == Cardinality(sent)
           on_time == Cardinality({i \in sent :
                                     call.notices[i].onTimeStatus = "true"})
           distance == 100 * on_time - call.result.score * total
       IN /\ call.result.totalCount = total
          /\ call.result.onTimeCount = on_time
          /\ total = 0 => (call.result.score = 100 /\ call.result.currentStreak = 0)
          /\ total > 0 => /\ 2 * distance <= total
                          /\ 2 * distance >= -total

\* One notice of eight on time: 12.5 is rounded to 12, the even neighbour.
C15_Witness ==
    /\ Returned("calculate_score")
    /\ call.result.totalCount = 8
    /\ call.result.onTimeCount = 1
    /\ call.result.score = 12

\* C16: currentStreak is the number of leading notices with onTimeStatus =
\* true when the sent notices with a non-null sentAt are ordered by sentAt
\* descending: the streak notices are on time and no older than any other
\* notice, and a most recent one of the others, if any, is not on time.
C16_StreakIsLeadingOnTime ==
    Returned("_calculate_streak")
    => LET nts == call.notices
           dated == {i \in DOMAIN nts : nts[i].sentAt # NULL}
       IN \E streak \in SUBSET dated :
             /\ Cardinality(streak) = call.result
             /\ \A i \in streak : nts[i].onTimeStatus = "true"
             /\ \A i \in streak, j \in dated \ streak :
                   nts[i].sentAt >= nts[j].sentAt
             /\ \/ streak = dated
                \/ \E j \in dated \ streak :
                      /\ nts[j].onTimeStatus # "true"
                      /\ \A k \in dated \ streak : nts[j].sentAt >= nts[k].sentAt

\* The latest notice on time, the one before it late, the oldest on time: the
\* streak is 1.
C16_Witness ==
    /\ Returned("_calculate_streak")
    /\ call.result = 1
    /\ Len(call.notices) = 3
    /\ \E i, j, k \in DOMAIN call.notices :
          /\ call.notices[i].sentAt = 2 /\ call.notices[i].onTimeStatus = "true"
          /\ call.notices[j].sentAt = 1 /\ call.notices[j].onTimeStatus = "false"
          /\ call.notices[k].sentAt = 0 /\ call.notices[k].onTimeStatus = "true"

\* The snapshot of today with period type "daily", if there is one.
TodaysDaily(history, nowT) ==
    {i \in DOMAIN history : /\ history[i].snapshotDate = (nowT \div 86400) * 86400
                            /\ history[i].periodType = "daily"}

\* C17: there is at most one ScoreHistory row per snapshotDate and
\* periodType, and the daily job run on a day that has its daily row adds no
\* row and overwrites that row with the current counts.
C17_OneSnapshotPerDayAndPeriod ==
    [][/\ \A i, j \in DOMAIN scoreHistory' :
             (/\ scoreHistory'[i].snapshotDate = scoreHistory'[j].snapshotDate
              /\ scoreHistory'[i].periodType = scoreHistory'[j].periodType)
             => i = j
       /\ (run_daily_snapshot /\ TodaysDaily(scoreHistory, now) # {})
          => /\ Len(scoreHistory') = Len(scoreHistory)
             /\ \A i \in TodaysDaily(scoreHistory, now) :
                   /\ scoreHistory'[i].snapshotDate = scoreHistory[i].snapshotDate
                   /\ scoreHistory'[i].periodType = "daily"
                   /\ scoreHistory'[i].totalCount =
                         Cardinality({n \in DOMAIN notices :
                            notices[n].status \in {"SENT", "ACKNOWLEDGED"}})
                   /\ scoreHistory'[i].onTimeCount =
                         Cardinality({n \in DOMAIN notices :
                            /\ notices[n].status \in {"SENT", "ACKNOWLEDGED"}
                            /\ notices[n].onTimeStatus = "true"})]_vars

\* The daily row of today was created before the notice it counts was sent:
\* a later run of the daily job has overwritten it.
C17_Witness ==
    /\ scores = <<>>
    /\ \E i \in TodaysDaily(scoreHistory, now), n \in DOMAIN notices :
          /\ scoreHistory[i].totalCount = 1
          /\ notices[n].status = "SENT"
          /\ notices[n].sentAt > scoreHistory[i].createdAt

\* A notice that send_notice accepts: DRAFT or PENDING_REVIEW with a recipient.
Sendable(n) ==
    /\ n \in DOMAIN notices
    /\ notices[n].status \in {"DRAFT", "PENDING_REVIEW"}
    /\ notices[n].recipientEmail \notin {"None", ""}

\* C18: send_notice on a sendable notice sets status SENT and sentAt = now,
\* sets deliveredAt = now exactly when the transport reported success and null
\* otherwise, and in both cases writes one audit entry with the recipient, the
\* transport outcome and the on-time outcome.
C18_SendRecordsTransportOutcome ==
    [][\A n \in DOMAIN notices, sent \in BOOLEAN :
          (Sendable(n) /\ send_notice(n, sent))
          => /\ notices'[n].status = "SENT"
             /\ notices'[n].sentAt = now
             /\ sent => notices'[n].deliveredAt = now
             /\ ~sent => notices'[n].deliveredAt = -1
             /\ Len(auditTx') = 1
             /\ auditTx'[1].eventType = "NOTICE_SENT"
             /\ auditTx'[1].entityId = n
             /\ auditTx'[1].details.recipientEmail = notices[n].recipientEmail
             /\ auditTx'[1].details.emailSent = sent
             /\ auditTx'[1].details.onTime = (notices'[n].onTimeStatus = "true")]_vars

\* A send whose transport failed: the notice is SENT without deliveredAt, and
\* the audit entry of the request records the failure.
C18_Witness ==
    /\ Len(auditTx) = 1
    /\ auditTx[1].eventType = "NOTICE_SENT"
    /\ auditTx[1].details.emailSent = FALSE
    /\ Len(emailTx) = 1
    /\ ~emailTx[1].sent
    /\ \E n \in DOMAIN notices :
          /\ auditTx[1].entityId = n
          /\ notices[n].status = "SENT"
          /\ notices[n].sentAt = now
          /\ notices[n].deliveredAt = -1

\* C19: send_notice on a notice that is not DRAFT or PENDING_REVIEW, or that
\* has no recipient email, answers with an error, transmits no email and
\* leaves the notices, the deadlines and the audit log as they were.
C19_RefusedSendChangesNothing ==
    [][\A n \in DOMAIN notices, sent \in BOOLEAN :
          (~Sendable(n) /\ send_notice(n, sent))
          => /\ response'.status_code = 400
             /\ emailTx' = <<>>
             /\ auditTx' = <<>>
             /\ notices' = notices
             /\ deadlines' = deadlines]_vars

\* A send refused for a notice already sent, whose deadline is NOTICE_SENT.
C19_Witness ==
    /\ response = [status_code |-> 400, detail |-> "Cannot send notice in SENT status"]
    /\ emailTx = <<>>
    /\ auditTx = <<>>
    /\ \E n \in DOMAIN notices, d \in DOMAIN deadlines :
          /\ notices[n].status = "SENT"
          /\ deadlines[d].noticeId = n
          /\ deadlines[d].status = "NOTICE_SENT"

\* A send refused for a draft without a recipient email.
C19_WitnessNoRecipient ==
    /\ response = [status_code |-> 400, detail |-> "Notice has no recipient email"]
    /\ emailTx = <<>>
    /\ \E n \in DOMAIN notices : notices[n].status = "DRAFT"

\* The title, the content and the recipient of a notice.
Text(notice) ==
    <<notice.title, notice.content, notice.recipientName, notice.recipientEmail>>

\* The last request was refused with an error that names the status.
RefusedNaming(verb, status) ==
    /\ response'.status_code = 400
    /\ response'.detail = "Cannot " \o verb \o " notice in " \o status \o " status"
    /\ notices' = notices
    /\ deadlines' = deadlines
    /\ auditTx' = <<>>

\* C20: no step changes the title, the content or the recipient of a notice
\* that is SENT or ACKNOWLEDGED, and update_notice and regenerate_notice_draft
\* on such a notice fail with an error that names its status and change
\* nothing.
C20_SentNoticeTextIsFrozen ==
    [][\A n \in DOMAIN notices :
          notices[n].status \in {"SENT", "ACKNOWLEDGED"}
          => /\ n \in DOMAIN notices'
             /\ Text(notices'[n]) = Text(notices[n])
             /\ \A body \in ContentUpdateRequests :
                   update_notice_endpoint(n, body)
                   => RefusedNaming("edit", notices[n].status)
             /\ \A generated \in BOOLEAN :
                   regenerate_notice(n, generated)
                   => RefusedNaming("regenerate", notices[n].status)]_vars

\* A regeneration refused for an acknowledged notice whose content had been
\* generated and whose title had been edited while it was a draft.
C20_Witness ==
    /\ response = [status_code |-> 400,
                   detail |-> "Cannot regenerate notice in ACKNOWLEDGED status"]
    /\ \E n \in DOMAIN notices :
          /\ notices[n].status = "ACKNOWLEDGED"
          /\ notices[n].content = "generated"
          /\ notices[n].title = "edited"
          /\ notices[n].sentAt # -1

\* An edit refused for a sent notice.
C20_WitnessEdit ==
    /\ response = [status_code |-> 400, detail |-> "Cannot edit notice in SENT status"]
    /\ \E n \in DOMAIN notices : notices[n].status = "SENT"

\* C21: a notice leaves the table only from DRAFT or PENDING_REVIEW, and
\* delete_notice on a notice in another status fails and leaves the notices,
\* the deadlines with their links and the audit log as they were.
C21_OnlyDraftsAreDeleted ==
    [][\A n \in DOMAIN notices :
          /\ n \notin DOMAIN notices'
             => notices[n].status \in {"DRAFT", "PENDING_REVIEW"}
          /\ (delete_notice(n) /\ notices[n].status \notin {"DRAFT", "PENDING_REVIEW"})
             => /\ response'.status_code = 400
                /\ notices' = notices
                /\ deadlines' = deadlines
                /\ auditTx' = <<>>]_vars

\* A delete refused for an acknowledged notice whose deadline stays linked.
C21_Witness ==
    /\ response = [status_code |-> 400,
                   detail |-> "Cannot delete notice in ACKNOWLEDGED status"]
    /\ auditTx = <<>>
    /\ \E n \in DOMAIN notices, d \in DOMAIN deadlines :
          /\ notices[n].status = "ACKNOWLEDGED"
          /\ deadlines[d].noticeId = n

\* C22: a notice created for an ACTIVE deadline makes the deadline
\* NOTICE_DRAFTED with noticeId and noticeCreatedAt set, and the delete of a
\* draft makes its deadline ACTIVE again with both fields cleared, the rest
\* of the row kept, and writes one audit entry.
C22_DraftThenDeleteRestoresDeadline ==
    [][\A d \in DOMAIN deadlines :
          /\ (/\ deadlines[d].status = "ACTIVE"
              /\ \E body \in NoticeRequests : create_notice(body, d, MaxNotices))
             => /\ deadlines'[d].status = "NOTICE_DRAFTED"
                /\ deadlines'[d].noticeId \in DOMAIN notices' \ DOMAIN notices
                /\ notices'[deadlines'[d].noticeId].status = "DRAFT"
                /\ deadlines'[d].noticeCreatedAt = now
          /\ \A n \in DOMAIN notices :
                (/\ deadlines[d].noticeId = n
                 /\ notices[n].status \in {"DRAFT", "PENDING_REVIEW"}
                 /\ delete_notice(n))
                => /\ n \notin DOMAIN notices'
                   /\ deadlines'[d] =
                         [deadlines[d] EXCEPT !.status = "ACTIVE",
                                              !.noticeId = -1,
                                              !.noticeCreatedAt = -1]
                   /\ Len(auditTx') = 1
                   /\ auditTx'[1].eventType = "NOTICE_DELETED"
                   /\ auditTx'[1].entityId = n]_vars

\* A draft was created and deleted, and the deadline is ACTIVE, without link.
C22_Witness ==
    /\ Len(auditTx) = 1
    /\ auditTx[1].eventType = "NOTICE_DELETED"
    /\ auditTx[1].entityId \notin DOMAIN notices
    /\ \E d \in DOMAIN deadlines :
          /\ deadlines[d].status = "ACTIVE"
          /\ deadlines[d].noticeId = -1
          /\ deadlines[d].noticeCreatedAt = -1

\* C23: the waiver of a deadline that is already WAIVED leaves its row as it
\* was: waivedAt and waiverReason keep the values of the first waiver.
C23_RewaiveKeepsFirstWaiver ==
    [][\A d \in DOMAIN deadlines :
          (/\ deadlines[d].status = "WAIVED"
           /\ \E reason \in WaiverReasons : waive_deadline(d, reason))
          => /\ deadlines'[d].waivedAt = deadlines[d].waivedAt
             /\ deadlines'[d].waiverReason = deadlines[d].waiverReason
             /\ deadlines'[d] = deadlines[d]]_vars

\* A clause id for which no deadline can be created: no such clause in the
\* project, or a clause without deadlineDays or without deadlineType.
WithoutDeadlineParameters(c) ==
    \/ c \notin DOMAIN ContractClause
    \/ ContractClause[c].deadline_days = -1
    \/ ContractClause[c].deadline_type = "None"

\* C24: POST /deadlines for a clause that does not exist or that has no
\* deadlineDays or no deadlineType answers 400 and persists neither a
\* deadline nor an audit entry.
C24_CreateDeadlineFailsWithoutParameters ==
    [][\A body \in DeadlineRequests(now) :
          (/\ WithoutDeadlineParameters(body.clause)
           /\ create_deadline_endpoint(body, MaxDeadlines))
          => /\ response'.status_code = 400
             /\ deadlines' = deadlines
             /\ auditTx' = <<>>]_vars

\* A creation refused while the project has a deadline.
C24_Witness ==
    /\ response.status_code = 400
    /\ response.detail = "Failed to create deadline - check clause parameters"
    /\ auditTx = <<>>
    /\ Len(deadlines) = 1

\* C25: no step changes the calculatedDeadline or the triggeredAt of a
\* deadline, or removes the deadline: holiday edits, severity passes, waivers
\* and notice operations leave them as computed at creation time.
C25_DeadlineDatesAreFrozen ==
    [][\A d \in DOMAIN deadlines :
          /\ d \in DOMAIN deadlines'
          /\ deadlines'[d].calculatedDeadline = deadlines[d].calculatedDeadline
          /\ deadlines'[d].triggeredAt = deadlines[d].triggeredAt]_vars

\* Monday became a holiday after the deadline was created on Thursday, day 0,
\* with two business days: the deadline is still the end of Tuesday, day 5,
\* where a deadline created now would end on Wednesday; its notice was sent.
C25_Witness ==
    /\ projectHolidays = {4}
    /\ \E d \in DOMAIN deadlines :
          /\ deadlines[d].clauseId = 2
          /\ deadlines[d].triggeredAt = 0
          /\ deadlines[d].calculatedDeadline = 5 * 86400 + 86399
          /\ deadlines[d].status = "NOTICE_SENT"

\* C26: when a job stops, the changes of every project it processed without
\* an error are committed, and it has visited every project: an error in one
\* project keeps neither the others' changes from the database nor the job
\* from the next project.
C26_ProjectErrorsAreIsolated ==
    job.state \in {"failed", "finished"}
    => /\ job.done \subseteq job.committed
       /\ job.pos >= Len(job.projects)

\* The status and the severity of a row.
Outcome(row) == <<row.status, row.severity>>

\* The outcome for a row of the pass at time t run alone on the row.
PassAlone(row, t) ==
    IF row.status \in {"ACTIVE", "NOTICE_DRAFTED"}
    THEN LET severity == IF row.calculatedDeadline <= t THEN "EXPIRED"
                         ELSE IF row.calculatedDeadline - t <= 3 * 86400 THEN "CRITICAL"
                         ELSE IF row.calculatedDeadline - t <= 7 * 86400 THEN "WARNING"
                         ELSE IF row.calculatedDeadline - t <= 14 * 86400 THEN "INFO"
                         ELSE "LOW"
         IN IF severity = row.severity THEN Outcome(row)
            ELSE <<IF severity = "EXPIRED" THEN "EXPIRED" ELSE row.status, severity>>
    ELSE Outcome(row)

\* The outcomes of the two serial orders for a row the pass loaded as loaded
\* and the requests left as row: the requests and then the pass, or the pass
\* and then the requests, which write the status whatever it was and the
\* severity, LOW, only with a waiver.
SerialOutcomes(row, loaded, t) ==
    {PassAlone(row, t),
     IF Outcome(row) = Outcome(loaded) THEN PassAlone(loaded, t)
     ELSE <<row.status,
            IF row.status = "WAIVED" THEN "LOW" ELSE PassAlone(loaded, t)[2]>>}

\* C27: when the pass commits after requests that committed while it was in
\* flight, the status and the severity of every deadline it loaded are those
\* of one of the two serial orders of the pass and the requests.
C27_PassAndRequestSerialize ==
    [][\A w \in DOMAIN inflight :
          (inflight[w].open /\ pass_commit(w))
          => \A d \in DOMAIN inflight[w].rows :
                Outcome(deadlines'[d]) \in
                    SerialOutcomes(deadlines[d], inflight[w].rows[d], inflight[w].at)]_vars

\* C28: no handler is inside a call of the email transport or of the
\* language model while the transaction of its session is open.
C28_NoTransactionAcrossExternalCall ==
    \A w \in DOMAIN inflight :
        ("calling" \in DOMAIN inflight[w] /\ inflight[w].calling # "none")
        => ~inflight[w].open

\* C29: outside development, for every key and every interval of
\* window_seconds seconds, check returned True at most max_requests times
\* with the time of the call in the interval.
C29_SlidingWindow ==
    ~limiter.is_development
    => \A key \in DOMAIN limiter.allowed :
          \A t \in 0..limiter.time :
             Cardinality({i \in DOMAIN limiter.allowed[key] :
                             /\ t <= limiter.allowed[key][i]
                             /\ limiter.allowed[key][i] < t + LimiterWindowSeconds})
                <= LimiterMaxRequests

\* C30: the project has at most one ComplianceScore row, whatever the
\* recalculations that ran, two at once for a project without a row included.
C30_OneScoreRow ==
    Len(scores) <= 1
\* C31: a severity pass that moves a deadline into CRITICAL or EXPIRED sends
\* an alert email to every eligible user, next to the in-app notifications;
\* a pass that moves deadlines into WARNING only sends no email.
C31_PassEmailsCriticalAndExpired ==
    [][run_severity_cron
       => LET moved(sevs) ==
                  {d \in DOMAIN deadlines :
                      /\ deadlines[d].status \in ActiveStatuses
                      /\ deadlines[d].severity # deadlines'[d].severity
                      /\ deadlines'[d].severity \in sevs}
          IN /\ alertsTx' >= Cardinality(moved(ALERT_SEVERITIES)) * NumAlertUsers
             /\ Len(emailTx') =
                   Cardinality(moved({"CRITICAL", "EXPIRED"})) * NumAlertUsers]_vars

\* The clauses the RFI trigger has to create a deadline for: kind
\* CLAIMS_PROCEDURE or CHANGE_ORDER_PROCESS, deadlineDays set, and no
\* non-terminal deadline of the RFI yet.
QualifyingClauses(dls, rfi_id) ==
    {c \in ClauseIds :
        /\ ContractClause[c].kind \in {"CLAIMS_PROCEDURE", "CHANGE_ORDER_PROCESS"}
        /\ ContractClause[c].deadline_days # NULL
        /\ ~\E d \in DOMAIN dls : /\ dls[d].clauseId = c
                                  /\ dls[d].triggerEventType = "RFI"
                                  /\ dls[d].triggerEventId = rfi_id
                                  /\ dls[d].status \notin {"EXPIRED", "WAIVED"}}

\* C32: trigger_rfi_compliance succeeds and adds exactly one deadline, with
\* triggerEventType RFI and the id of the RFI, for each qualifying clause;
\* with no qualifying clause it adds nothing and reports no error.
C32_RfiTriggerCoversQualifyingClauses ==
    [][\A rfi \in EventIds :
          trigger_rfi_compliance(rfi)
          => LET new == {d \in DOMAIN deadlines' : d > Len(deadlines)}
             IN /\ response'.status_code = 200
                /\ \A d \in new : /\ deadlines'[d].triggerEventType = "RFI"
                                  /\ deadlines'[d].triggerEventId = rfi
                /\ \A c \in ClauseIds :
                      Cardinality({d \in new : deadlines'[d].clauseId = c})
                         = IF c \in QualifyingClauses(deadlines, rfi) THEN 1
                           ELSE 0]_vars

\* The stored clauses of a document without their ids, as a count per clause.
ExtractedCount(rows, document_id, content) ==
    Cardinality({i \in DOMAIN rows :
                    /\ rows[i].sourceDocId = document_id
                    /\ rows[i].aiExtracted
                    /\ [rows[i] EXCEPT !.id = 0] = content})

ExtractedContents(rows, document_id) ==
    {[rows[i] EXCEPT !.id = 0] :
        i \in {j \in DOMAIN rows : rows[j].sourceDocId = document_id
                                   /\ rows[j].aiExtracted}}

\* C33: in every reachable state, extracting a document and extracting it
\* again right away leaves, for that document, the clauses that the first
\* extraction left, each as many times; the clauses of the other documents
\* stay as they are.
C33_ReextractionDoesNotDuplicate ==
    \A document_id \in Documents :
        LET once == extraction(contractClauses, nextClauseId, deadlines, document_id)
            twice == extraction(once.clauses, once.nextId, deadlines, document_id)
        IN ~once.raised
           => /\ ~twice.raised
              /\ ExtractedContents(twice.clauses, document_id)
                    = ExtractedContents(once.clauses, document_id)
              /\ \A content \in ExtractedContents(once.clauses, document_id) :
                    ExtractedCount(twice.clauses, document_id, content)
                       = ExtractedCount(once.clauses, document_id, content)
              /\ \A other \in Documents \ {document_id} :
                    /\ ExtractedContents(twice.clauses, other)
                          = ExtractedContents(contractClauses, other)
                    /\ \A content \in ExtractedContents(contractClauses, other) :
                          ExtractedCount(twice.clauses, other, content)
                             = ExtractedCount(contractClauses, other, content)

\* Document 1 has been extracted a second time: its two clauses are stored
\* once each, under ids that the first extraction did not use.
C33_Witness ==
    /\ Len(auditTx) = 1
    /\ auditTx[1].eventType = "CLAUSE_EXTRACTION"
    /\ auditTx[1].entityId = 1
    /\ nextClauseId > 4
    /\ Cardinality({i \in DOMAIN contractClauses :
                       contractClauses[i].sourceDocId = 1}) = 2
    /\ \A i \in DOMAIN contractClauses :
          contractClauses[i].sourceDocId = 1 => contractClauses[i].id > 2

C35_OneOpenDeadlinePerTrigger ==
    \A d, e \in DOMAIN deadlines :
        (/\ d # e
         /\ deadlines[d].triggerEventId # NULL
         /\ deadlines[d].status \notin {"EXPIRED", "WAIVED"}
         /\ deadlines[e].status \notin {"EXPIRED", "WAIVED"}
         /\ deadlines[d].clauseId = deadlines[e].clauseId
         /\ deadlines[d].triggerEventType = deadlines[e].triggerEventType)
        => deadlines[d].triggerEventId # deadlines[e].triggerEventId

\* C36: in every reachable state a NOTICE_DRAFTED deadline has the noticeId
\* of an existing notice that is DRAFT or PENDING_REVIEW, and an ACTIVE
\* deadline has no noticeId.
C36_DraftedDeadlineHasDraftNotice ==
    \A d \in DOMAIN deadlines :
        /\ deadlines[d].status = "NOTICE_DRAFTED"
           => /\ deadlines[d].noticeId # NULL
              /\ deadlines[d].noticeId \in DOMAIN notices
              /\ notices[deadlines[d].noticeId].status \in {"DRAFT", "PENDING_REVIEW"}
        /\ deadlines[d].status = "ACTIVE" => deadlines[d].noticeId = NULL

\* C37: in every reachable state every notice that is SENT or ACKNOWLEDGED has
\* an onTimeStatus, and every stored score has
\* totalCount = onTimeCount + missedCount.
C37_ScoredNoticesHaveOnTimeStatus ==
    /\ \A n \in DOMAIN notices :
          notices[n].status \in {"SENT", "ACKNOWLEDGED"}
          => notices[n].onTimeStatus \in {"true", "false"}
    /\ \A i \in DOMAIN scores :
          scores[i].totalCount = scores[i].onTimeCount + scores[i].missedCount

\* C38: of two send requests for the same notice that run concurrently only
\* one transmits: a request sends the email only while the notice is still
\* DRAFT or PENDING_REVIEW, and the sentAt and the onTimeStatus of a notice,
\* once set, are not written again.
C38_ConcurrentSendsTransmitOnce ==
    [][/\ \A w \in Workers, sent \in BOOLEAN :
             send_finish(w, sent)
             => notices[inflight[w].notice_id].status \in {"DRAFT", "PENDING_REVIEW"}
       /\ \A n \in DOMAIN notices :
             notices[n].status = "SENT"
             => /\ notices'[n].sentAt = notices[n].sentAt
                /\ notices'[n].onTimeStatus = notices[n].onTimeStatus]_vars

\* C39: the outcome of a draft or of a regeneration requested in project 1
\* (the prompt, or the error) is the same on two clause tables that differ
\* only in the clauses of project 2, and a prompt never contains the text of
\* a clause of project 2.
C39_DraftReadsOwnProjectOnly ==
    (Returned("generate_notice_draft") \/ Returned("regenerate_notice_draft"))
    => /\ call.result[1] = call.result[2]
       /\ \A i \in {1, 2} :
             "user_prompt" \in DOMAIN call.result[i]
             => call.result[i].user_prompt.clause_content
                   \notin OtherProjectTexts

====
